---- MODULE Spec2Model ----
(***************************************************************************)
(* Order lifecycle and courier assignment of the quickbite backend         *)
(* (services/order_service.py over the PostgreSQL tables tbl_pedido and    *)
(* tbl_detalles_venta, reached through database.get_db_cursor).            *)
(*                                                                         *)
(* Every service call runs inside one get_db_cursor(commit=True) block,    *)
(* i.e. one PostgreSQL transaction at the default READ COMMITTED level:    *)
(*  - a SELECT sees the rows committed at the moment it runs;              *)
(*  - an UPDATE locks the row until the transaction ends; an UPDATE of a   *)
(*    row locked by another transaction waits, and then evaluates its      *)
(*    WHERE clause on the row as committed by that transaction;            *)
(*  - the new row version becomes visible to others at commit, and is      *)
(*    discarded at rollback.                                               *)
(* Request handlers of different server processes interleave at their      *)
(* statements.                                                             *)
(***************************************************************************)
EXTENDS Integers, Sequences, FiniteSets, TLC

\* ---------------------------------------------------------------- bounds
MaxPedidos == 2            \* order ids 1..MaxPedidos can exist
NumPedidosIniciales == 1   \* orders already stored when the service starts
NumRepartidores == 2       \* courier ids 1..NumRepartidores
NumSolicitudes == 2        \* request handlers running concurrently
MaxItems == 2              \* line items of one creation payload

\* ------------------------------------------------- constants of the code
ESTADO_PEDIDO_PENDIENTE_CONFIRMACION == "pendiente_confirmacion"
ESTADO_PEDIDO_CONFIRMADO_POR_RESTAURANTE == "confirmado_por_restaurante"
ESTADO_PEDIDO_LISTO_PARA_RECOGER == "listo_para_recoger"
ESTADO_PEDIDO_RECOGIDO_POR_REPARTIDOR == "recogido_por_repartidor"
ESTADO_PEDIDO_EN_CAMINO == "en_camino"
ESTADO_PEDIDO_ENTREGADO == "entregado"
ESTADO_PEDIDO_CANCELADO == "cancelado"

Estados ==
  { ESTADO_PEDIDO_PENDIENTE_CONFIRMACION, ESTADO_PEDIDO_CONFIRMADO_POR_RESTAURANTE,
    ESTADO_PEDIDO_LISTO_PARA_RECOGER, ESTADO_PEDIDO_RECOGIDO_POR_REPARTIDOR,
    ESTADO_PEDIDO_EN_CAMINO, ESTADO_PEDIDO_ENTREGADO, ESTADO_PEDIDO_CANCELADO }

\* SQL NULL of the integer column tbl_pedido.id_repartidor (Python None)
NULL == 0

\* the 0.01 tolerance of the total check, in hundredths of a currency unit
TOLERANCIA_TOTAL == 1

\* values of the nuevo_estado string a caller may send: the seven states and
\* a string that names no state
EstadosSolicitables == Estados \cup {"desconocido"}

PedidoIds == 1..MaxPedidos
Repartidores == 1..NumRepartidores
Solicitudes == 1..NumSolicitudes
Clientes == {1}

\* states of an order nobody has claimed: the rows the restaurant side of
\* the system leaves in tbl_pedido
EstadosSinRepartidor ==
  { ESTADO_PEDIDO_PENDIENTE_CONFIRMACION, ESTADO_PEDIDO_CONFIRMADO_POR_RESTAURANTE,
    ESTADO_PEDIDO_LISTO_PARA_RECOGER, ESTADO_PEDIDO_CANCELADO }

\* outcomes of a service call: the HTTPException raised (status and detail),
\* or "200_ok" when the call returns a Pedido
R_OK == "200_ok"
R_TOTAL_NO_COINCIDE == "400_total_no_coincide"
R_PRODUCTO_NO_ENCONTRADO == "404_producto_no_encontrado"
R_PEDIDO_NO_ENCONTRADO == "404_pedido_no_encontrado"
R_YA_TIENES_ASIGNADO == "400_ya_tienes_este_pedido_asignado"
R_ASIGNADO_A_OTRO == "409_ya_asignado_a_otro_repartidor"
R_NO_LISTO == "409_no_esta_listo_para_recoger"
R_NO_SE_PUDO_ASIGNAR == "500_no_se_pudo_asignar"
R_ESTADO_NO_PERMITIDO == "400_estado_no_permitido"
R_NO_TIENES_PERMISO == "403_no_tienes_permiso"
R_NO_SE_PUDO_ACTUALIZAR == "404_no_se_pudo_actualizar"
R_ERROR_INESPERADO == "500_error"
\* psycopg2.Error inside create_order_with_items: 400 for a foreign key
\* violation (pgcode 23503), 500 otherwise
R_ERROR_BASE_DE_DATOS == "500_error_de_base_de_datos"

VARIABLES
  tbl_pedido,           \* committed rows: id_pedido -> row
  tbl_detalles_venta,   \* committed line items: set of rows; id_detalle_venta
                        \* is kept as the ordinal of the row within its order
  tbl_producto,         \* the catalog: nombre_producto -> id_producto,
                        \* precio_producto (hundredths)
  seq_pedido,           \* next value of the id_pedido sequence
  solicitudes,          \* per request handler: the call it runs and where it is
  lectura_detalles_ok,  \* whether the line-item read of the courier calls works:
                        \* it selects cantidad, precio_unitario, subtotal and
                        \* builds OrderItem(product_id, quantity, price), while
                        \* the creation inserts cantidad_articulo and builds
                        \* OrderItem(nombre_producto, cantidad, precio_unitario);
                        \* the table and OrderItem are defined outside the
                        \* sources, so both outcomes are covered, fixed at start
  db_pool               \* the connection pool: how many of its connections
                        \* are checked out (getconn without putconn yet)

vars == <<tbl_pedido, tbl_detalles_venta, tbl_producto, seq_pedido, solicitudes,
          lectura_detalles_ok, db_pool>>

\* ------------------------------------------------------ connection pool
\* get_db_connection_from_pool: db_pool.getconn() checks one connection out
get_db_connection_from_pool(usadas) == usadas + 1

\* (a faulty variant: the connection is never handed back)
release_db_connection_to_pool_SinPutconn(usadas) == usadas

\* release_db_connection_to_pool: db_pool.putconn(conn) hands it back
release_db_connection_to_pool(usadas) == usadas - 1

\* get_db_cursor around a body that ends in the same step: the connection is
\* taken at entry and the finally clause releases it
get_db_cursor_entra_y_sale(usadas) ==
  release_db_connection_to_pool(get_db_connection_from_pool(usadas))

\* ------------------------------------------------------------- requests
SolicitudLibre ==
  [ op |-> "ninguna", pc |-> "fin", id_pedido |-> 0, id_repartidor |-> NULL,
    nuevo_estado |-> "", pedido_actual |-> <<>>, escrito |-> <<>>,
    resultado |-> "" ]

\* (a faulty variant: the row stays locked after the commit, until the
\* request that wrote it starts its next call)
TieneBloqueo_SinLiberar(r, id) ==
  /\ \/ solicitudes[r].pc \in {"asignar_detalles", "update_detalles"}
     \/ /\ solicitudes[r].pc = "fin"
        /\ solicitudes[r].op \in {"asignar", "update"}
        /\ solicitudes[r].resultado = R_OK
  /\ solicitudes[r].id_pedido = id

\* the row lock taken by an UPDATE: held by the request whose transaction
\* has written the row and has not ended yet
TieneBloqueo(r, id) ==
  /\ solicitudes[r].pc \in {"asignar_detalles", "update_detalles"}
  /\ solicitudes[r].id_pedido = id

FilaBloqueadaPorOtro(r, id) ==
  \E o \in Solicitudes \ {r} : TieneBloqueo(o, id)

\* cursor.fetchone() after "SELECT ... FROM tbl_pedido WHERE id_pedido = %s":
\* <<>> for None, else the one row
SelectPedido(id) ==
  IF id \in DOMAIN tbl_pedido THEN <<tbl_pedido[id]>> ELSE <<>>

\* the call of request r ends with outcome res (its transaction is over)
Terminar(r, res) ==
  solicitudes' = [solicitudes EXCEPT ![r].pc = "fin", ![r].resultado = res,
                                     ![r].escrito = <<>>]

\* ------------------------------------- claim: asignar_pedido_a_repartidor
\* ChequeoAsignar with the state checked before the courier (a faulty variant)
ChequeoAsignar_EstadoPrimero(pedido_actual, id_repartidor) ==
  IF pedido_actual = <<>> THEN R_PEDIDO_NO_ENCONTRADO
  ELSE IF pedido_actual[1].estado_pedido # ESTADO_PEDIDO_LISTO_PARA_RECOGER
       THEN R_NO_LISTO
  ELSE IF pedido_actual[1].id_repartidor # NULL
       THEN IF pedido_actual[1].id_repartidor = id_repartidor
            THEN R_YA_TIENES_ASIGNADO
            ELSE R_ASIGNADO_A_OTRO
  ELSE ""

\* ChequeoAsignar without the check of the stored courier (a faulty variant)
ChequeoAsignar_SinRepartidor(pedido_actual, id_repartidor) ==
  IF pedido_actual = <<>> THEN R_PEDIDO_NO_ENCONTRADO
  ELSE IF pedido_actual[1].estado_pedido # ESTADO_PEDIDO_LISTO_PARA_RECOGER
       THEN R_NO_LISTO
  ELSE ""

\* ChequeoAsignar letting the courier of the order claim it again (a faulty
\* variant)
ChequeoAsignar_ReclamoPropio(pedido_actual, id_repartidor) ==
  IF pedido_actual = <<>> THEN R_PEDIDO_NO_ENCONTRADO
  ELSE IF pedido_actual[1].id_repartidor \notin {NULL, id_repartidor}
       THEN R_ASIGNADO_A_OTRO
  ELSE IF pedido_actual[1].id_repartidor = NULL
          /\ pedido_actual[1].estado_pedido # ESTADO_PEDIDO_LISTO_PARA_RECOGER
       THEN R_NO_LISTO
  ELSE ""

\* the checks between the SELECT and the UPDATE, in the order of the code;
\* "" when the call goes on to the UPDATE
ChequeoAsignar(pedido_actual, id_repartidor) ==
  IF pedido_actual = <<>> THEN R_PEDIDO_NO_ENCONTRADO
  ELSE IF pedido_actual[1].id_repartidor # NULL
       THEN IF pedido_actual[1].id_repartidor = id_repartidor
            THEN R_YA_TIENES_ASIGNADO
            ELSE R_ASIGNADO_A_OTRO
  ELSE IF pedido_actual[1].estado_pedido # ESTADO_PEDIDO_LISTO_PARA_RECOGER
       THEN R_NO_LISTO
  ELSE ""

nuevo_estado_tras_asignacion == ESTADO_PEDIDO_RECOGIDO_POR_REPARTIDOR

\* WHERE clause of the claim's UPDATE, on a stored row
WhereAsignar(id_fila, fila, id_pedido) ==
  id_fila = id_pedido

\* SetAsignar with the courier left out of the SET clause (a faulty variant)
SetAsignar_SinRepartidor(fila, id_repartidor) ==
  [fila EXCEPT !.estado_pedido = nuevo_estado_tras_asignacion]

\* SetAsignar with the state left out of the SET clause (a faulty variant)
SetAsignar_SinEstado(fila, id_repartidor) ==
  [fila EXCEPT !.id_repartidor = id_repartidor]

\* SET clause of the claim's UPDATE
SetAsignar(fila, id_repartidor) ==
  [fila EXCEPT !.id_repartidor = id_repartidor,
               !.estado_pedido = nuevo_estado_tras_asignacion]

\* SELECT id_repartidor, estado_pedido ... and the three checks
asignar_select(r, id_pedido, id_repartidor) ==
  /\ solicitudes[r].pc = "fin"
  /\ LET pedido_actual == SelectPedido(id_pedido)
         res == ChequeoAsignar(pedido_actual, id_repartidor)
     IN solicitudes' = [solicitudes EXCEPT ![r] =
          [ op |-> "asignar", pc |-> IF res = "" THEN "asignar_update" ELSE "fin",
            id_pedido |-> id_pedido, id_repartidor |-> id_repartidor,
            nuevo_estado |-> "",
            pedido_actual |-> IF res = "" THEN pedido_actual ELSE <<>>,
            escrito |-> <<>>, resultado |-> res ]]
  /\ UNCHANGED <<tbl_pedido, tbl_detalles_venta, tbl_producto, seq_pedido,
                 lectura_detalles_ok>>
  /\ db_pool' = IF solicitudes'[r].pc = "fin"
                THEN get_db_cursor_entra_y_sale(db_pool)
                ELSE get_db_connection_from_pool(db_pool)

\* UPDATE tbl_pedido SET id_repartidor, estado_pedido WHERE id_pedido ...
\* RETURNING: waits while another transaction holds the row
asignar_update(r) ==
  /\ solicitudes[r].pc = "asignar_update"
  /\ ~FilaBloqueadaPorOtro(r, solicitudes[r].id_pedido)
  /\ LET id == solicitudes[r].id_pedido
         filas == { i \in DOMAIN tbl_pedido : WhereAsignar(i, tbl_pedido[i], id) }
     IN IF filas = {}
        THEN Terminar(r, R_NO_SE_PUDO_ASIGNAR)
        ELSE solicitudes' = [solicitudes EXCEPT
               ![r].pc = "asignar_detalles",
               ![r].escrito = <<SetAsignar(tbl_pedido[id], solicitudes[r].id_repartidor)>>]
  /\ UNCHANGED <<tbl_pedido, tbl_detalles_venta, tbl_producto, seq_pedido,
                 lectura_detalles_ok>>
  /\ db_pool' = IF solicitudes'[r].pc = "fin"
                THEN release_db_connection_to_pool(db_pool)
                ELSE db_pool

\* end of the with-block of get_db_cursor(commit=True): conn.commit() when the
\* body returned, conn.rollback() when it raised
get_db_cursor_salida(r, ok) ==
  /\ IF ok
     THEN /\ tbl_pedido' = [tbl_pedido EXCEPT
                 ![solicitudes[r].id_pedido] = solicitudes[r].escrito[1]]
          /\ Terminar(r, R_OK)
     ELSE /\ UNCHANGED tbl_pedido
          /\ Terminar(r, R_ERROR_INESPERADO)
  /\ db_pool' = release_db_connection_to_pool(db_pool)
  /\ UNCHANGED <<tbl_detalles_venta, tbl_producto, seq_pedido, lectura_detalles_ok>>

\* SELECT ... cantidad, precio_unitario, subtotal FROM tbl_detalles_venta,
\* the OrderItem and Pedido built from it, and the end of the with-block
asignar_detalles(r) ==
  /\ solicitudes[r].pc = "asignar_detalles"
  /\ get_db_cursor_salida(r, lectura_detalles_ok)

\* --------------------- courier transition: update_estado_pedido_por_repartidor
\* estados_permitidos_repartidor with cancelado added (a faulty variant)
estados_permitidos_repartidor_ConCancelado ==
  {ESTADO_PEDIDO_EN_CAMINO, ESTADO_PEDIDO_ENTREGADO, ESTADO_PEDIDO_CANCELADO}

estados_permitidos_repartidor == {ESTADO_PEDIDO_EN_CAMINO, ESTADO_PEDIDO_ENTREGADO}

\* ChequeoUpdate without the ownership check (a faulty variant)
ChequeoUpdate_SinPropietario(pedido_actual, id_repartidor_actual) ==
  IF pedido_actual = <<>> THEN R_PEDIDO_NO_ENCONTRADO ELSE ""

\* ChequeoUpdate reporting a missing order as not owned (a faulty variant)
ChequeoUpdate_SinNoEncontrado(pedido_actual, id_repartidor_actual) ==
  IF pedido_actual = <<>> THEN R_NO_TIENES_PERMISO
  ELSE IF pedido_actual[1].id_repartidor # id_repartidor_actual
       THEN R_NO_TIENES_PERMISO
  ELSE ""

\* the checks between the SELECT and the UPDATE; "" when the call goes on
ChequeoUpdate(pedido_actual, id_repartidor_actual) ==
  IF pedido_actual = <<>> THEN R_PEDIDO_NO_ENCONTRADO
  ELSE IF pedido_actual[1].id_repartidor # id_repartidor_actual
       THEN R_NO_TIENES_PERMISO
  ELSE ""

\* (a faulty variant: the courier condition left out of the UPDATE)
WhereUpdate_SinRepartidor(id_fila, fila, id_pedido, id_repartidor_actual) ==
  id_fila = id_pedido

\* WHERE id_pedido = %s AND id_repartidor = %s
WhereUpdate(id_fila, fila, id_pedido, id_repartidor_actual) ==
  id_fila = id_pedido /\ fila.id_repartidor = id_repartidor_actual

\* (a faulty variant: the transition also takes the courier off the order)
SetUpdate_LiberaRepartidor(fila, nuevo_estado) ==
  [fila EXCEPT !.estado_pedido = nuevo_estado, !.id_repartidor = NULL]

\* (a faulty variant: the row is written anew and loses its client)
SetUpdate_SinCliente(fila, nuevo_estado) ==
  [fila EXCEPT !.estado_pedido = nuevo_estado, !.id_cliente = NULL]

\* SET estado_pedido = %s
SetUpdate(fila, nuevo_estado) ==
  [fila EXCEPT !.estado_pedido = nuevo_estado]

update_select(r, id_pedido, id_repartidor_actual, nuevo_estado) ==
  /\ solicitudes[r].pc = "fin"
  /\ LET permitido == nuevo_estado \in estados_permitidos_repartidor
         pedido_actual == IF permitido THEN SelectPedido(id_pedido) ELSE <<>>
         res == IF permitido THEN ChequeoUpdate(pedido_actual, id_repartidor_actual)
                ELSE R_ESTADO_NO_PERMITIDO
     IN solicitudes' = [solicitudes EXCEPT ![r] =
          [ op |-> "update", pc |-> IF res = "" THEN "update_update" ELSE "fin",
            id_pedido |-> id_pedido, id_repartidor |-> id_repartidor_actual,
            nuevo_estado |-> nuevo_estado,
            pedido_actual |-> IF res = "" THEN pedido_actual ELSE <<>>,
            escrito |-> <<>>, resultado |-> res ]]
  /\ UNCHANGED <<tbl_pedido, tbl_detalles_venta, tbl_producto, seq_pedido,
                 lectura_detalles_ok>>
  /\ db_pool' = IF solicitudes'[r].resultado = R_ESTADO_NO_PERMITIDO
                THEN db_pool
                ELSE IF solicitudes'[r].pc = "fin"
                     THEN get_db_cursor_entra_y_sale(db_pool)
                     ELSE get_db_connection_from_pool(db_pool)

update_update(r) ==
  /\ solicitudes[r].pc = "update_update"
  /\ ~FilaBloqueadaPorOtro(r, solicitudes[r].id_pedido)
  /\ LET id == solicitudes[r].id_pedido
         filas == { i \in DOMAIN tbl_pedido :
                      WhereUpdate(i, tbl_pedido[i], id, solicitudes[r].id_repartidor) }
     IN IF filas = {}
        THEN Terminar(r, R_NO_SE_PUDO_ACTUALIZAR)
        ELSE solicitudes' = [solicitudes EXCEPT
               ![r].pc = "update_detalles",
               ![r].escrito = <<SetUpdate(tbl_pedido[id], solicitudes[r].nuevo_estado)>>]
  /\ UNCHANGED <<tbl_pedido, tbl_detalles_venta, tbl_producto, seq_pedido,
                 lectura_detalles_ok>>
  /\ db_pool' = IF solicitudes'[r].pc = "fin"
                THEN release_db_connection_to_pool(db_pool)
                ELSE db_pool

update_detalles(r) ==
  /\ solicitudes[r].pc = "update_detalles"
  /\ get_db_cursor_salida(r, lectura_detalles_ok)

\* ------------------------------------- creation: create_order_with_items
NombresProducto == {"pizza", "fantasma"}
Cantidades == {1, 2}
PreciosUnitarios == {500}
Totales == {1000}

\* declared totals next to the computed totals 1000 and 2000: one and two
\* hundredths away
TotalesAmplios == {999, 1000, 1001, 1002, 2001}

ItemsPosibles ==
  [ nombre_producto : NombresProducto, cantidad : Cantidades,
    precio_unitario : PreciosUnitarios ]

\* the PedidoCreate payloads a client sends
Cargas ==
  [ id_cliente : Clientes, total_pedido : Totales,
    items : UNION { [1..n -> ItemsPosibles] : n \in 1..MaxItems } ]

CargasAmplias ==
  [ id_cliente : Clientes, total_pedido : TotalesAmplios,
    items : UNION { [1..n -> ItemsPosibles] : n \in 1..MaxItems } ]

\* the statement of the transaction at which the database raises
\* psycopg2.Error: 0 for none, 1 for the INSERT of the header, i + 1 for the
\* INSERT of item i
FallosBD == 0..(MaxItems + 1)

RECURSIVE calculated_total(_)
calculated_total(items) ==
  IF items = <<>> THEN 0
  ELSE items[1].cantidad * items[1].precio_unitario + calculated_total(Tail(items))

Abs(x) == IF x < 0 THEN -x ELSE x

\* The amounts of the check are Python floats (IEEE-754 doubles). An amount
\* of x hundredths, x >= 100, is the double nearest to x/100: a 53-bit
\* significand with exponent ExponenteDoble(x). RestoDoble(x) is what x/100
\* leaves beyond the 53rd bit, in hundredths of the last bit: the double is
\* below x/100 when it is under 50, above x/100 when it is over 50, and equal
\* to x/100 when it is 0.
RECURSIVE Pot2Mod(_, _)
Pot2Mod(k, m) == IF k = 0 THEN 1 % m ELSE (2 * Pot2Mod(k - 1, m)) % m

ExponenteDoble(x) == CHOOSE e \in 0..20 : 100 * 2^e <= x /\ x < 100 * 2^(e + 1)

RestoDoble(x) == ((x % 100) * Pot2Mod(52 - ExponenteDoble(x), 100)) % 100

RedondeaArriba(x) == RestoDoble(x) > 50

RedondeaAbajo(x) == RestoDoble(x) \in 1..49

\* abs(calculated_total - order_data.total_pedido) > 0.01 on doubles, for a
\* computed total that is a whole number of currency units (as every sum of
\* cantidad * precio_unitario of the payloads is) and so is exact: the
\* subtraction of the two nearby doubles is exact, and the double 0.01 is
\* above 1/100 by less than any rounding of the declared total; so at one
\* hundredth of distance the rounding of the declared total decides
ExcedeTolerancia(calculado, declarado) ==
  IF Abs(calculado - declarado) # TOLERANCIA_TOTAL
  THEN Abs(calculado - declarado) > TOLERANCIA_TOTAL
  ELSE IF declarado > calculado THEN RedondeaArriba(declarado)
  ELSE RedondeaAbajo(declarado)

TotalCoincide(order_data) ==
  ~ExcedeTolerancia(calculated_total(order_data.items), order_data.total_pedido)

\* the first statement of the transaction that raises, counted as FallosBD
\* counts them, 0 if none: item i raises HTTPException at its product lookup
\* when tbl_producto has no such nombre_producto, and psycopg2.Error at its
\* INSERT when the database fails there
RECURSIVE PrimerFallo(_, _, _)
PrimerFallo(order_data, fallo_bd, i) ==
  IF fallo_bd = 1 THEN 1
  ELSE IF i > Len(order_data.items) THEN 0
  ELSE IF \/ order_data.items[i].nombre_producto \notin DOMAIN tbl_producto
          \/ fallo_bd = i + 1
       THEN i + 1
  ELSE PrimerFallo(order_data, fallo_bd, i + 1)

\* the outcome of the body of the with-block
ResultadoCrear(order_data, fallo_bd) ==
  LET k == PrimerFallo(order_data, fallo_bd, 1)
  IN IF k = 0 THEN R_OK
     ELSE IF k > 1 /\ order_data.items[k - 1].nombre_producto \notin DOMAIN tbl_producto
          THEN R_PRODUCTO_NO_ENCONTRADO
     ELSE R_ERROR_BASE_DE_DATOS

\* the number of line items the body has inserted when it ends
ItemsInsertados(order_data, fallo_bd) ==
  LET k == PrimerFallo(order_data, fallo_bd, 1)
  IN IF k = 0 THEN Len(order_data.items)
     ELSE IF k = 1 THEN 0
     ELSE k - 2

\* (a faulty variant: the state of the payload is stored)
FilaPedidoNuevo_EstadoDeLaCarga(order_data) ==
  [ id_cliente |-> order_data.id_cliente,
    estado_pedido |-> order_data.estado_pedido,
    total_pedido |-> order_data.total_pedido,
    id_repartidor |-> NULL ]

\* the header row of INSERT INTO tbl_pedido: the state is the constant, the
\* courier column is not in the column list
FilaPedidoNuevo(order_data) ==
  [ id_cliente |-> order_data.id_cliente,
    estado_pedido |-> ESTADO_PEDIDO_PENDIENTE_CONFIRMACION,
    total_pedido |-> order_data.total_pedido,
    id_repartidor |-> NULL ]

\* the rows of INSERT INTO tbl_detalles_venta for the first n items, in order
FilasDetalle(order_data, id_pedido_nuevo, n) ==
  { [ id_detalle_venta |-> i, id_pedido |-> id_pedido_nuevo,
      id_producto |-> tbl_producto[order_data.items[i].nombre_producto].id_producto,
      cantidad_articulo |-> order_data.items[i].cantidad ]
    : i \in 1..n }

\* get_db_cursor_fin that commits whatever the body did (a faulty variant)
get_db_cursor_fin_SinRollback(ok, confirmado, pendiente) == pendiente

\* a table after the with-block of get_db_cursor(commit=True): the table as
\* the transaction left it when the body returned (conn.commit()), the
\* committed table when the body raised (conn.rollback())
get_db_cursor_fin(ok, confirmado, pendiente) ==
  IF ok THEN pendiente ELSE confirmado

\* The call on the committed tables: its outcome, the order id it drew (0
\* when it drew none), and the tables and the id_pedido sequence after it.
\* The sequence advances even when the transaction rolls back.
TransaccionCrear(order_data, fallo_bd) ==
  IF ~TotalCoincide(order_data)
  THEN [ resultado |-> R_TOTAL_NO_COINCIDE, id_pedido |-> 0,
         tbl_pedido |-> tbl_pedido, tbl_detalles_venta |-> tbl_detalles_venta,
         seq_pedido |-> seq_pedido ]
  ELSE LET res == ResultadoCrear(order_data, fallo_bd)
           pedidos_tx ==
             IF fallo_bd = 1 THEN tbl_pedido
             ELSE [ i \in DOMAIN tbl_pedido \cup {seq_pedido} |->
                      IF i = seq_pedido THEN FilaPedidoNuevo(order_data)
                      ELSE tbl_pedido[i] ]
           detalles_tx ==
             tbl_detalles_venta \cup
               FilasDetalle(order_data, seq_pedido,
                            ItemsInsertados(order_data, fallo_bd))
       IN [ resultado |-> res,
            id_pedido |-> IF fallo_bd = 1 THEN 0 ELSE seq_pedido,
            tbl_pedido |-> get_db_cursor_fin(res = R_OK, tbl_pedido, pedidos_tx),
            tbl_detalles_venta |->
              get_db_cursor_fin(res = R_OK, tbl_detalles_venta, detalles_tx),
            seq_pedido |-> seq_pedido + 1 ]

\* The inserted rows are invisible to the other transactions until the
\* commit, so the call is one step at its commit (or rollback).
create_order_with_items(r, order_data, fallo_bd) ==
  /\ solicitudes[r].pc = "fin"
  /\ fallo_bd <= Len(order_data.items) + 1
  /\ LET tx == TransaccionCrear(order_data, fallo_bd)
     IN /\ tx.seq_pedido <= MaxPedidos + 1
        /\ tbl_pedido' = tx.tbl_pedido
        /\ tbl_detalles_venta' = tx.tbl_detalles_venta
        /\ seq_pedido' = tx.seq_pedido
        /\ solicitudes' = [solicitudes EXCEPT ![r] =
             [SolicitudLibre EXCEPT !.op = "crear", !.id_pedido = tx.id_pedido,
                                    !.resultado = tx.resultado]]
  /\ db_pool' = IF solicitudes'[r].resultado = R_TOTAL_NO_COINCIDE
                THEN db_pool
                ELSE get_db_cursor_entra_y_sale(db_pool)
  /\ UNCHANGED <<lectura_detalles_ok, tbl_producto>>

\* ------------------------------------ creation with any integer quantity
\* item.cantidad as create_order_with_items receives it: the function uses
\* it in the total and in the INSERT and never compares it with 0
CantidadesEnviadas == {-1, 0, 1, 2}
TotalesEnviados == {500, 1000}

CargasEnviadas ==
  [ id_cliente : Clientes, total_pedido : TotalesEnviados,
    items : UNION { [1..n -> [ nombre_producto : {"pizza"},
                               cantidad : CantidadesEnviadas,
                               precio_unitario : PreciosUnitarios ]]
                    : n \in 1..MaxItems } ]

\* ------------------------------- creation with a state in the payload
\* PedidoBase.estado_pedido: Optional[str], any text; here every state
\* other than the default
EstadosEnviados == Estados \ {ESTADO_PEDIDO_PENDIENTE_CONFIRMACION}

CargasConEstado ==
  [ id_cliente : Clientes, estado_pedido : EstadosEnviados,
    total_pedido : Totales,
    items : UNION { [1..n -> ItemsPosibles] : n \in 1..MaxItems } ]

\* ------------------------------------------- catalog: update_product
PreciosCatalogo == {500, 700}
ProductoIds == {1, 2}

\* UPDATE tbl_producto SET precio_producto = %s WHERE id_producto = %s, and
\* the commit; no row when the product does not exist
update_product(product_id, precio_producto) ==
  /\ tbl_producto' =
       [ n \in DOMAIN tbl_producto |->
           IF tbl_producto[n].id_producto = product_id
           THEN [tbl_producto[n] EXCEPT !.precio_producto = precio_producto]
           ELSE tbl_producto[n] ]
  /\ db_pool' = get_db_cursor_entra_y_sale(db_pool)
  /\ UNCHANGED <<tbl_pedido, tbl_detalles_venta, seq_pedido, solicitudes,
                 lectura_detalles_ok>>

\* ------------------------------------------- reads: get_orders_by_client_id
\* SELECT dv.*, p.nombre_producto, p.precio_producto FROM tbl_detalles_venta dv
\* INNER JOIN tbl_producto p ON dv.id_producto = p.id_producto
\* WHERE dv.id_pedido = %s, as the OrderItem list of the response
ItemsLeidos(id_pedido) ==
  UNION { { [ id |-> dv.id_detalle_venta, order_id |-> dv.id_pedido,
              nombre_producto |-> n, cantidad |-> dv.cantidad_articulo,
              precio_unitario |-> tbl_producto[n].precio_producto ]
            : n \in { m \in DOMAIN tbl_producto :
                        tbl_producto[m].id_producto = dv.id_producto } }
          : dv \in { d \in tbl_detalles_venta : d.id_pedido = id_pedido } }

\* the orders of a client with their items (the response without its order)
get_orders_by_client_id(client_id) ==
  { [ id_pedido |-> id, id_cliente |-> tbl_pedido[id].id_cliente,
      estado_pedido |-> tbl_pedido[id].estado_pedido,
      total_pedido |-> tbl_pedido[id].total_pedido,
      id_repartidor |-> tbl_pedido[id].id_repartidor,
      items |-> ItemsLeidos(id) ]
    : id \in { i \in DOMAIN tbl_pedido : tbl_pedido[i].id_cliente = client_id } }

\* current_timestamp = datetime.datetime.now(), read by the creating call and
\* stored in fecha_pedido. The creations commit one after another and each
\* reads the clock after the one before it, so the stored reading grows with
\* the position of the order in the id_pedido sequence.
fecha_pedido(id) == id

\* (a faulty variant: oldest first)
OrderByFechaDesc_Asc(a, b) == fecha_pedido(a) <= fecha_pedido(b)

\* ORDER BY fecha_pedido DESC: row a may come before row b
OrderByFechaDesc(a, b) == fecha_pedido(a) >= fecha_pedido(b)

\* the selected rows in the order the ORDER BY gives them
RECURSIVE pedidos_db_ordenados(_)
pedidos_db_ordenados(ids) ==
  IF ids = {} THEN <<>>
  ELSE LET primero == CHOOSE i \in ids : \A j \in ids : OrderByFechaDesc(i, j)
       IN <<primero>> \o pedidos_db_ordenados(ids \ {primero})

\* lista_pedidos_completos: the rows WHERE id_cliente = %s in the order of
\* the ORDER BY, each appended as a Pedido with the items read for it
lista_pedidos_completos(client_id) ==
  LET pedidos_db ==
        pedidos_db_ordenados({ i \in DOMAIN tbl_pedido :
                                 tbl_pedido[i].id_cliente = client_id })
  IN [ k \in 1..Len(pedidos_db) |->
         [ id_pedido |-> pedidos_db[k],
           id_cliente |-> tbl_pedido[pedidos_db[k]].id_cliente,
           estado_pedido |-> tbl_pedido[pedidos_db[k]].estado_pedido,
           total_pedido |-> tbl_pedido[pedidos_db[k]].total_pedido,
           fecha_pedido |-> fecha_pedido(pedidos_db[k]),
           id_repartidor |-> tbl_pedido[pedidos_db[k]].id_repartidor,
           items |-> ItemsLeidos(pedidos_db[k]) ] ]

\* ------------------------- reads: get_pedidos_disponibles_para_repartidor
\* the row of tbl_pedido as a SELECT returns it, with its key
FilaLeida(id) ==
  [ id_pedido |-> id, id_cliente |-> tbl_pedido[id].id_cliente,
    estado_pedido |-> tbl_pedido[id].estado_pedido,
    total_pedido |-> tbl_pedido[id].total_pedido,
    id_repartidor |-> tbl_pedido[id].id_repartidor ]

\* (a faulty variant: the state condition left out)
WhereDisponibles_SinEstado(fila) == fila.id_repartidor = NULL

\* WHERE id_repartidor IS NULL AND estado_pedido = %s, with
\* ESTADO_PEDIDO_LISTO_PARA_RECOGER as the parameter
WhereDisponibles(fila) ==
  /\ fila.id_repartidor = NULL
  /\ fila.estado_pedido = ESTADO_PEDIDO_LISTO_PARA_RECOGER

\* the fetched rows, returned as they are (no items are read); the SELECT has
\* no ORDER BY, the rows are a set
get_pedidos_disponibles_para_repartidor ==
  { FilaLeida(id) : id \in { i \in DOMAIN tbl_pedido :
                               WhereDisponibles(tbl_pedido[i]) } }

\* ------------------------------ reads: get_pedidos_asignados_a_repartidor
R_ERROR_PEDIDOS_ASIGNADOS == "500_error_al_obtener_pedidos_asignados"

\* (a faulty variant: the courier condition left out)
WhereAsignados_SinRepartidor(fila, id_repartidor) ==
  fila.estado_pedido \notin {ESTADO_PEDIDO_ENTREGADO, ESTADO_PEDIDO_CANCELADO}

\* (a faulty variant: delivered and cancelled orders stay in the list)
WhereAsignados_SinEstado(fila, id_repartidor) ==
  fila.id_repartidor = id_repartidor

\* WHERE id_repartidor = %s AND estado_pedido NOT IN (%s, %s), with
\* ESTADO_PEDIDO_ENTREGADO and ESTADO_PEDIDO_CANCELADO as the parameters
WhereAsignados(fila, id_repartidor) ==
  /\ fila.id_repartidor = id_repartidor
  /\ fila.estado_pedido \notin {ESTADO_PEDIDO_ENTREGADO, ESTADO_PEDIDO_CANCELADO}

\* SELECT id_detalle_venta, id_pedido, id_producto, cantidad, precio_unitario,
\* subtotal FROM tbl_detalles_venta WHERE id_pedido = %s, as OrderItem values;
\* the columns cantidad and precio_unitario are not the ones
\* create_order_with_items writes, their values are left out
ItemsDeRepartidor(id_pedido) ==
  { [ id |-> dv.id_detalle_venta, order_id |-> dv.id_pedido,
      product_id |-> dv.id_producto ]
    : dv \in { d \in tbl_detalles_venta : d.id_pedido = id_pedido } }

\* [] when no row is selected, before any item is read; otherwise the item
\* SELECT runs for each row and its failure is answered with a 500
get_pedidos_asignados_a_repartidor(id_repartidor) ==
  LET pedidos_db == { i \in DOMAIN tbl_pedido :
                        WhereAsignados(tbl_pedido[i], id_repartidor) }
  IN IF pedidos_db = {}
     THEN [ resultado |-> R_OK, pedidos |-> {} ]
     ELSE IF ~lectura_detalles_ok
     THEN [ resultado |-> R_ERROR_PEDIDOS_ASIGNADOS, pedidos |-> {} ]
     ELSE [ resultado |-> R_OK,
            pedidos |-> { [ pedido |-> FilaLeida(i),
                            items |-> ItemsDeRepartidor(i) ] : i \in pedidos_db } ]

\* ------------------------------ reads: get_detalle_pedido_para_repartidor
R_NO_TE_HA_SIDO_ASIGNADO == "403_este_pedido_no_te_ha_sido_asignado"
R_ERROR_DETALLE == "500_error_al_obtener_detalle_del_pedido"

\* (a faulty variant: the courier condition left out)
WhereDetalle_SinRepartidor(id_fila, fila, id_pedido, id_repartidor_actual) ==
  id_fila = id_pedido

\* WHERE id_pedido = %s AND id_repartidor = %s
WhereDetalle(id_fila, fila, id_pedido, id_repartidor_actual) ==
  /\ id_fila = id_pedido
  /\ fila.id_repartidor = id_repartidor_actual

\* the first SELECT. With a row: the item SELECT and the Pedido returned (or
\* the 500 of a failed item SELECT). Without a row the call goes on to the
\* second SELECT.
detalle_select(r, id_pedido, id_repartidor_actual) ==
  /\ solicitudes[r].pc = "fin"
  /\ LET filas == { i \in DOMAIN tbl_pedido :
                      WhereDetalle(i, tbl_pedido[i], id_pedido,
                                   id_repartidor_actual) }
         pedido_db == IF filas = {} THEN <<>>
                      ELSE <<tbl_pedido[CHOOSE i \in filas : TRUE]>>
     IN solicitudes' = [solicitudes EXCEPT ![r] =
          [ op |-> "detalle",
            pc |-> IF pedido_db = <<>> THEN "detalle_existe" ELSE "fin",
            id_pedido |-> id_pedido, id_repartidor |-> id_repartidor_actual,
            nuevo_estado |-> "",
            pedido_actual |-> IF lectura_detalles_ok THEN pedido_db ELSE <<>>,
            escrito |-> <<>>,
            resultado |-> IF pedido_db = <<>> THEN ""
                          ELSE IF lectura_detalles_ok THEN R_OK
                          ELSE R_ERROR_DETALLE ]]
  /\ UNCHANGED <<tbl_pedido, tbl_detalles_venta, tbl_producto, seq_pedido,
                 lectura_detalles_ok>>
  /\ db_pool' = IF solicitudes'[r].pc = "fin"
                THEN get_db_cursor_entra_y_sale(db_pool)
                ELSE get_db_connection_from_pool(db_pool)

\* SELECT id_repartidor FROM tbl_pedido WHERE id_pedido = %s, in the same
\* transaction after the first SELECT: it sees what has been committed since
detalle_existe(r) ==
  /\ solicitudes[r].pc = "detalle_existe"
  /\ LET existe_pedido == SelectPedido(solicitudes[r].id_pedido)
     IN solicitudes' = [solicitudes EXCEPT
          ![r].pc = "fin",
          ![r].resultado = IF existe_pedido = <<>> THEN R_PEDIDO_NO_ENCONTRADO
                           ELSE R_NO_TE_HA_SIDO_ASIGNADO]
  /\ UNCHANGED <<tbl_pedido, tbl_detalles_venta, tbl_producto, seq_pedido,
                 lectura_detalles_ok>>
  /\ db_pool' = release_db_connection_to_pool(db_pool)

\* ---------------------------------- orders router: the client of the token
R_CLIENTE_NO_COINCIDE == "403_order_client_id_does_not_match"
R_NO_AUTORIZADO_A_VER == "403_not_authorized_to_view_these_orders"

\* str(client_id), the "sub" of a client's token, as its decimal digits
RECURSIVE str(_)
str(n) == IF n < 10 THEN <<n>> ELSE str(n \div 10) \o <<n % 10>>

\* int(current_user.user_id) on a string of decimal digits
RECURSIVE int(_)
int(s) ==
  IF Len(s) = 0 THEN 0 ELSE 10 * int(SubSeq(s, 1, Len(s) - 1)) + s[Len(s)]

\* the clients that hold a token of the client login
ClientesConToken == {1, 2, 12}

\* TokenDataUser.user_id of the tokens get_current_user accepts
UserIds == { str(c) : c \in ClientesConToken }

\* (a faulty variant: the comparison with the token left out)
ChequeoClienteToken_SinComparar(user_id, id_cliente) == ""

\* if order_data.id_cliente != int(client_id_from_token_str): 403; the same
\* comparison guards the listing by client id
ChequeoClienteToken(user_id, id_cliente) ==
  IF id_cliente # int(user_id) THEN R_CLIENTE_NO_COINCIDE ELSE ""

\* create_new_order for the token's user: the 403 before the service is
\* called, else the transaction of create_order_with_items
PeticionCrear(user_id, order_data) ==
  IF ChequeoClienteToken(user_id, order_data.id_cliente) # ""
  THEN [ resultado |-> R_CLIENTE_NO_COINCIDE, id_pedido |-> 0,
         tbl_pedido |-> tbl_pedido, tbl_detalles_venta |-> tbl_detalles_venta,
         seq_pedido |-> seq_pedido ]
  ELSE TransaccionCrear(order_data, 0)

post_orders(r, user_id, order_data) ==
  /\ solicitudes[r].pc = "fin"
  /\ LET tx == PeticionCrear(user_id, order_data)
     IN /\ tx.seq_pedido <= MaxPedidos + 1
        /\ tbl_pedido' = tx.tbl_pedido
        /\ tbl_detalles_venta' = tx.tbl_detalles_venta
        /\ seq_pedido' = tx.seq_pedido
        /\ solicitudes' = [solicitudes EXCEPT ![r] =
             [SolicitudLibre EXCEPT !.op = "crear", !.id_pedido = tx.id_pedido,
                                    !.resultado = tx.resultado]]
        /\ db_pool' = IF tx.resultado \in {R_TOTAL_NO_COINCIDE, R_CLIENTE_NO_COINCIDE}
                      THEN db_pool
                      ELSE get_db_cursor_entra_y_sale(db_pool)
  /\ UNCHANGED <<lectura_detalles_ok, tbl_producto>>

\* GET /client/{client_id_param} for the token's user: 403 for another
\* client's id, else the list of get_orders_by_client_id
get_user_orders_by_client_id_param(user_id, client_id_param) ==
  IF ChequeoClienteToken(user_id, client_id_param) # ""
  THEN [ resultado |-> R_NO_AUTORIZADO_A_VER, orders |-> <<>> ]
  ELSE [ resultado |-> R_OK, orders |-> lista_pedidos_completos(client_id_param) ]

\* ------------------------------------- courier login and authenticator
R_CREDENCIALES_REPARTIDOR == "401_no_se_pudieron_validar_las_credenciales_del_repartidor"
R_TOKEN_EXPIRADO == "401_token_de_repartidor_ha_expirado"
R_ROL_NO_AUTORIZADO == "403_rol_no_autorizado_para_repartidor"
R_ERROR_AUTENTICACION == "500_error_interno_durante_la_autenticacion_del_repartidor"

\* the character "@" next to the decimal digits 0..9 of str
ARROBA == 64

\* _create_access_token: the claims signed with SECRET_KEY, with "exp";
\* expirado tells whether "exp" has passed when the token is presented
create_access_token(data, expirado) ==
  [ claims |-> data, expirado |-> expirado ]

\* authenticate_repartidor for a registered, active courier with the right
\* password: the claims of the token
authenticate_repartidor(id_repartidor, expirado) ==
  create_access_token([ sub |-> str(id_repartidor),
                        id_repartidor |-> id_repartidor,
                        role |-> "repartidor" ], expirado)

\* authenticate_user of the client login: "sub" and "role" only
authenticate_user(client_id, expirado) ==
  create_access_token([ sub |-> str(client_id), role |-> "cliente" ], expirado)

\* the tokens signed with SECRET_KEY: those of the two logins
TokensEmitidos ==
  { authenticate_repartidor(rep, e) : rep \in Repartidores, e \in BOOLEAN }
    \cup { authenticate_user(c, e) : c \in ClientesConToken, e \in BOOLEAN }

\* payload.get(k): <<>> for None
PayloadGet(payload, k) == IF k \in DOMAIN payload THEN <<payload[k]>> ELSE <<>>

\* EmailStr: the value has a "@" with text on both sides
EmailStr(s) == \E i \in 2..(Len(s) - 1) : s[i] = ARROBA

\* get_current_repartidor: jwt.decode (ExpiredSignatureError -> 401), the
\* three claims (one missing -> 401), the role (-> 403), then
\* TokenDataRepartidor(correo_repartidor = sub, ...) whose ValidationError
\* falls to "except Exception" (-> 500)
get_current_repartidor(token) ==
  LET payload == token.claims
      correo_repartidor == PayloadGet(payload, "sub")
      id_repartidor_from_token == PayloadGet(payload, "id_repartidor")
      role_from_token == PayloadGet(payload, "role")
      rechazo(res) == [ resultado |-> res, id_repartidor |-> NULL, role |-> "" ]
  IN IF token.expirado THEN rechazo(R_TOKEN_EXPIRADO)
     ELSE IF \/ correo_repartidor = <<>>
             \/ id_repartidor_from_token = <<>>
             \/ role_from_token = <<>>
     THEN rechazo(R_CREDENCIALES_REPARTIDOR)
     ELSE IF role_from_token[1] # "repartidor"
     THEN rechazo(R_ROL_NO_AUTORIZADO)
     ELSE IF ~EmailStr(correo_repartidor[1])
     THEN rechazo(R_ERROR_AUTENTICACION)
     ELSE [ resultado |-> R_OK, id_repartidor |-> id_repartidor_from_token[1],
            role |-> role_from_token[1] ]

\* POST /pedidos/{id_pedido}/aceptar with a token: the dependency
\* get_current_repartidor runs first; the claim starts only for the courier
\* it returns
post_aceptar_pedido(r, token, id_pedido) ==
  LET current_repartidor_token == get_current_repartidor(token)
  IN IF current_repartidor_token.resultado = R_OK
     THEN asignar_select(r, id_pedido, current_repartidor_token.id_repartidor)
     ELSE /\ solicitudes[r].pc = "fin"
          /\ solicitudes' = [solicitudes EXCEPT ![r] =
               [SolicitudLibre EXCEPT
                  !.op = "asignar", !.id_pedido = id_pedido,
                  !.resultado = current_repartidor_token.resultado]]
          /\ UNCHANGED <<tbl_pedido, tbl_detalles_venta, tbl_producto,
                         seq_pedido, lectura_detalles_ok, db_pool>>

\* ------------------------------------------------- routers: HTTP adapters
\* "await" applied to the value a plain (non-async) service function returned
R_NO_AWAITABLE == "500_object_cant_be_used_in_await_expression"

\* aceptar_pedido: "await order_service.asignar_pedido_a_repartidor(...)" on a
\* function defined with "def": the call runs to its end, then the await of
\* the returned Pedido raises TypeError, which "except Exception" turns into
\* a 500; an HTTPException of the service is raised again as it is
aceptar_pedido(resultado_servicio) ==
  IF resultado_servicio = R_OK THEN R_NO_AWAITABLE ELSE resultado_servicio

\* actualizar_estado_pedido: the same around update_estado_pedido_por_repartidor
actualizar_estado_pedido(resultado_servicio) ==
  IF resultado_servicio = R_OK THEN R_NO_AWAITABLE ELSE resultado_servicio

\* create_new_order: create_order_with_items is "async def", its awaited
\* result is returned
create_new_order(resultado_servicio) == resultado_servicio

\* get_mi_detalle_pedido: the same around get_detalle_pedido_para_repartidor
get_mi_detalle_pedido(resultado_servicio) ==
  IF resultado_servicio = R_OK THEN R_NO_AWAITABLE ELSE resultado_servicio

\* what the HTTP caller of a finished call receives
RespuestaHTTP(solicitud) ==
  CASE solicitud.op = "asignar" -> aceptar_pedido(solicitud.resultado)
    [] solicitud.op = "update" -> actualizar_estado_pedido(solicitud.resultado)
    [] solicitud.op = "crear" -> create_new_order(solicitud.resultado)
    [] solicitud.op = "detalle" -> get_mi_detalle_pedido(solicitud.resultado)
    [] OTHER -> ""

\* ------------------------------------------------------------ the system
\* tbl_pedido as the service finds it: orders nobody has claimed, in any of
\* the states the restaurant side gives them, each with one line item
FilaInicial(estado) ==
  [ id_cliente |-> 1, estado_pedido |-> estado, total_pedido |-> 500,
    id_repartidor |-> NULL ]

DetallesIniciales ==
  { [ id_detalle_venta |-> 1, id_pedido |-> i, id_producto |-> 1,
      cantidad_articulo |-> 1 ] : i \in 1..NumPedidosIniciales }

Init ==
  /\ tbl_pedido \in { [i \in 1..NumPedidosIniciales |-> FilaInicial(e[i])] :
                        e \in [1..NumPedidosIniciales -> EstadosSinRepartidor] }
  /\ tbl_detalles_venta = DetallesIniciales
  /\ tbl_producto = [pizza |-> [id_producto |-> 1, precio_producto |-> 500]]
  /\ seq_pedido = NumPedidosIniciales + 1
  /\ solicitudes = [r \in Solicitudes |-> SolicitudLibre]
  /\ lectura_detalles_ok \in BOOLEAN
  /\ db_pool = 0

\* the targets couriers ask for while clients create orders: the two the
\* courier transition permits and one it refuses (every target of
\* EstadosSolicitables is asked for under SpecReparto)
EstadosSolicitablesConCreacion ==
  estados_permitidos_repartidor \cup {ESTADO_PEDIDO_CANCELADO}

Next ==
  \/ \E r \in Solicitudes, id \in PedidoIds, rep \in Repartidores :
       asignar_select(r, id, rep)
  \/ \E r \in Solicitudes : asignar_update(r)
  \/ \E r \in Solicitudes : asignar_detalles(r)
  \/ \E r \in Solicitudes, id \in PedidoIds, rep \in Repartidores,
        e \in EstadosSolicitablesConCreacion : update_select(r, id, rep, e)
  \/ \E r \in Solicitudes : update_update(r)
  \/ \E r \in Solicitudes : update_detalles(r)
  \/ \E r \in Solicitudes, c \in Cargas : create_order_with_items(r, c, 0)

Spec == Init /\ [][Next]_vars

\* the courier operations alone (claim and courier transition)
NextReparto ==
  \/ \E r \in Solicitudes, id \in PedidoIds, rep \in Repartidores :
       asignar_select(r, id, rep)
  \/ \E r \in Solicitudes : asignar_update(r)
  \/ \E r \in Solicitudes : asignar_detalles(r)
  \/ \E r \in Solicitudes, id \in PedidoIds, rep \in Repartidores,
        e \in EstadosSolicitables : update_select(r, id, rep, e)
  \/ \E r \in Solicitudes : update_update(r)
  \/ \E r \in Solicitudes : update_detalles(r)

SpecReparto == Init /\ [][NextReparto]_vars

\* A call that has started goes on: the statement after the UPDATE and the
\* end of the with-block run when the handler is scheduled, and a transaction
\* waiting for a row is woken when the holder's transaction ends (PostgreSQL
\* queues the waiters of a row lock). Nothing obliges a client to start a call.
SpecRepartoJusta ==
  /\ SpecReparto
  /\ \A r \in Solicitudes :
       /\ SF_vars(asignar_update(r))
       /\ WF_vars(asignar_detalles(r))
       /\ SF_vars(update_update(r))
       /\ WF_vars(update_detalles(r))

\* order creation alone, with declared totals around the tolerance and with
\* database errors
NextCrear ==
  \E r \in Solicitudes, c \in CargasAmplias, f \in FallosBD :
    create_order_with_items(r, c, f)

SpecCrear == Init /\ [][NextCrear]_vars

\* order creation and changes of the catalog price
NextCatalogo ==
  \/ \E r \in Solicitudes, c \in Cargas : create_order_with_items(r, c, 0)
  \/ \E id \in ProductoIds, precio \in PreciosCatalogo : update_product(id, precio)

SpecCatalogo == Init /\ [][NextCatalogo]_vars

\* The order history of two clients: the stored orders belong to either of
\* them, both create orders, and the catalog price changes.
ClientesHistorial == {1, 2}

CargasHistorial ==
  [ id_cliente : ClientesHistorial, total_pedido : Totales,
    items : UNION { [1..n -> ItemsPosibles] : n \in 1..MaxItems } ]

InitHistorial ==
  /\ tbl_pedido \in
       { [i \in 1..NumPedidosIniciales |->
            [FilaInicial(e[i]) EXCEPT !.id_cliente = c[i]]] :
         e \in [1..NumPedidosIniciales -> EstadosSinRepartidor],
         c \in [1..NumPedidosIniciales -> ClientesHistorial] }
  /\ tbl_detalles_venta = DetallesIniciales
  /\ tbl_producto = [pizza |-> [id_producto |-> 1, precio_producto |-> 500]]
  /\ seq_pedido = NumPedidosIniciales + 1
  /\ solicitudes = [r \in Solicitudes |-> SolicitudLibre]
  /\ lectura_detalles_ok \in BOOLEAN
  /\ db_pool = 0

NextHistorial ==
  \/ \E r \in Solicitudes, c \in CargasHistorial :
       create_order_with_items(r, c, 0)
  \/ \E id \in ProductoIds, precio \in PreciosCatalogo : update_product(id, precio)

SpecHistorial == InitHistorial /\ [][NextHistorial]_vars

\* order creation with any integer quantities in the items
NextPeticiones ==
  \E r \in Solicitudes, c \in CargasEnviadas : create_order_with_items(r, c, 0)

SpecPeticiones == Init /\ [][NextPeticiones]_vars

\* claims, courier transitions and order creation, with couriers reading
\* the detail of an order in between
NextDetalle ==
  \/ \E r \in Solicitudes, id \in PedidoIds, rep \in Repartidores :
       asignar_select(r, id, rep)
  \/ \E r \in Solicitudes : asignar_update(r)
  \/ \E r \in Solicitudes : asignar_detalles(r)
  \/ \E r \in Solicitudes, c \in Cargas : create_order_with_items(r, c, 0)
  \/ \E r \in Solicitudes, id \in PedidoIds, rep \in Repartidores :
       detalle_select(r, id, rep)
  \/ \E r \in Solicitudes : detalle_existe(r)

SpecDetalle == Init /\ [][NextDetalle]_vars

\* clients create orders with a state of their choice in the payload, and
\* couriers try to claim the orders
NextEstadoInicial ==
  \/ \E r \in Solicitudes, c \in CargasConEstado :
       create_order_with_items(r, c, 0)
  \/ \E r \in Solicitudes, id \in PedidoIds, rep \in Repartidores :
       asignar_select(r, id, rep)
  \/ \E r \in Solicitudes : asignar_update(r)
  \/ \E r \in Solicitudes : asignar_detalles(r)

SpecEstadoInicial == Init /\ [][NextEstadoInicial]_vars

\* clients with a token create orders, with their own or another client's
\* id in the payload
NextAutorizacion ==
  \E r \in Solicitudes, u \in UserIds, c \in CargasHistorial :
    post_orders(r, u, c)

SpecAutorizacion == InitHistorial /\ [][NextAutorizacion]_vars

\* holders of a token of either login call the claim endpoint
NextAutenticacion ==
  \E r \in Solicitudes, token \in TokensEmitidos, id \in PedidoIds :
    post_aceptar_pedido(r, token, id)

SpecAutenticacion == Init /\ [][NextAutenticacion]_vars

\* Claims that do not overlap in time: a claim of an order starts only when
\* no other claim of that order is between its SELECT and the end of its
\* transaction. Courier transitions interleave freely.
ReclamoEnCurso(r, id_pedido) ==
  \E o \in Solicitudes \ {r} :
    /\ solicitudes[o].op = "asignar"
    /\ solicitudes[o].pc # "fin"
    /\ solicitudes[o].id_pedido = id_pedido

asignar_select_sin_solape(r, id_pedido, id_repartidor) ==
  /\ ~ReclamoEnCurso(r, id_pedido)
  /\ asignar_select(r, id_pedido, id_repartidor)

NextSecuencial ==
  \/ \E r \in Solicitudes, id \in PedidoIds, rep \in Repartidores :
       asignar_select_sin_solape(r, id, rep)
  \/ \E r \in Solicitudes : asignar_update(r)
  \/ \E r \in Solicitudes : asignar_detalles(r)
  \/ \E r \in Solicitudes, id \in PedidoIds, rep \in Repartidores,
        e \in EstadosSolicitables : update_select(r, id, rep, e)
  \/ \E r \in Solicitudes : update_update(r)
  \/ \E r \in Solicitudes : update_detalles(r)

SpecSecuencial == Init /\ [][NextSecuencial]_vars

\* Every request handler that can take a step eventually takes one: the
\* server keeps serving the calls it has accepted and keeps accepting calls.
SpecJusta == Spec /\ WF_vars(Next)

\* ======================================================================
\* Properties
\* ======================================================================
Fin(r) == solicitudes[r].pc = "fin"

\* the step in which request r starts a call of operation op (its SELECT, or
\* the rejection before it): the parameters of the call are in solicitudes'[r]
Inicia(r, op) ==
  /\ solicitudes[r].pc = "fin"
  /\ solicitudes'[r] # solicitudes[r]
  /\ solicitudes'[r].op = op

\* the step in which the transaction of request r commits its written row
Confirma(r, op) ==
  /\ solicitudes[r].op = op
  /\ solicitudes[r].escrito # <<>>
  /\ solicitudes'[r].pc = "fin"
  /\ solicitudes'[r].resultado = R_OK

EstadosConRepartidor ==
  { ESTADO_PEDIDO_RECOGIDO_POR_REPARTIDOR, ESTADO_PEDIDO_EN_CAMINO,
    ESTADO_PEDIDO_ENTREGADO }

\* the edges of the lifecycle graph
Aristas ==
  { <<ESTADO_PEDIDO_PENDIENTE_CONFIRMACION, ESTADO_PEDIDO_CONFIRMADO_POR_RESTAURANTE>>,
    <<ESTADO_PEDIDO_CONFIRMADO_POR_RESTAURANTE, ESTADO_PEDIDO_LISTO_PARA_RECOGER>>,
    <<ESTADO_PEDIDO_LISTO_PARA_RECOGER, ESTADO_PEDIDO_RECOGIDO_POR_REPARTIDOR>>,
    <<ESTADO_PEDIDO_RECOGIDO_POR_REPARTIDOR, ESTADO_PEDIDO_EN_CAMINO>>,
    <<ESTADO_PEDIDO_EN_CAMINO, ESTADO_PEDIDO_ENTREGADO>>,
    <<ESTADO_PEDIDO_PENDIENTE_CONFIRMACION, ESTADO_PEDIDO_CANCELADO>>,
    <<ESTADO_PEDIDO_CONFIRMADO_POR_RESTAURANTE, ESTADO_PEDIDO_CANCELADO>>,
    <<ESTADO_PEDIDO_LISTO_PARA_RECOGER, ESTADO_PEDIDO_CANCELADO>> }

\* C1: when two distinct couriers claim the same order and both read it as
\* listo_para_recoger with no courier (where the response of a claim can be
\* built), exactly one call succeeds, the other is told the order is already
\* assigned, and the order ends claimed by the courier of the successful call.
C1_UnSoloGanador ==
  \A r1, r2 \in Solicitudes :
    ( /\ r1 # r2 /\ Fin(r1) /\ Fin(r2)
      /\ solicitudes[r1].op = "asignar" /\ solicitudes[r2].op = "asignar"
      /\ solicitudes[r1].id_pedido = solicitudes[r2].id_pedido
      /\ solicitudes[r1].id_repartidor # solicitudes[r2].id_repartidor
      /\ solicitudes[r1].pedido_actual # <<>> /\ solicitudes[r2].pedido_actual # <<>>
      /\ lectura_detalles_ok )
    => \E g, p \in {r1, r2} :
         /\ g # p
         /\ solicitudes[g].resultado = R_OK
         /\ solicitudes[p].resultado \in {R_ASIGNADO_A_OTRO, R_YA_TIENES_ASIGNADO}
         /\ tbl_pedido[solicitudes[g].id_pedido].estado_pedido
              = ESTADO_PEDIDO_RECOGIDO_POR_REPARTIDOR
         /\ tbl_pedido[solicitudes[g].id_pedido].id_repartidor
              = solicitudes[g].id_repartidor

\* C2: a claim that has executed its UPDATE (and holds the row until its
\* transaction ends) wrote over a row whose stored state was still
\* listo_para_recoger and whose stored courier was still NULL.
C2_EscrituraCondicional ==
  \A r \in Solicitudes :
    solicitudes[r].pc = "asignar_detalles"
    => /\ tbl_pedido[solicitudes[r].id_pedido].estado_pedido
            = ESTADO_PEDIDO_LISTO_PARA_RECOGER
       /\ tbl_pedido[solicitudes[r].id_pedido].id_repartidor = NULL

\* C3: once an order has a courier, no step changes its id_repartidor to
\* another courier or back to NULL.
C3_RepartidorEstable ==
  [][ \A id \in DOMAIN tbl_pedido :
        tbl_pedido[id].id_repartidor # NULL
        => tbl_pedido'[id].id_repartidor = tbl_pedido[id].id_repartidor ]_vars

\* C4 (I3): every change of the state of a stored order follows one edge of
\* the lifecycle graph.
C4_SoloAristas ==
  [][ \A id \in DOMAIN tbl_pedido :
        tbl_pedido'[id].estado_pedido # tbl_pedido[id].estado_pedido
        => <<tbl_pedido[id].estado_pedido, tbl_pedido'[id].estado_pedido>> \in Aristas
    ]_vars

\* C5: a courier transition that found the order in entregado or cancelado
\* does not succeed.
C5_TerminalRechaza ==
  \A r \in Solicitudes :
    ( /\ Fin(r) /\ solicitudes[r].op = "update"
      /\ solicitudes[r].pedido_actual # <<>>
      /\ solicitudes[r].pedido_actual[1].estado_pedido
           \in {ESTADO_PEDIDO_ENTREGADO, ESTADO_PEDIDO_CANCELADO} )
    => solicitudes[r].resultado # R_OK

\* C6 (I2): every stored order has a courier exactly when its state is one of
\* recogido_por_repartidor, en_camino, entregado.
C6_I2 ==
  \A id \in DOMAIN tbl_pedido :
    (tbl_pedido[id].id_repartidor # NULL)
      <=> (tbl_pedido[id].estado_pedido \in EstadosConRepartidor)

\* C6 witness: an order was claimed and moved on by its courier while another
\* order, created meanwhile, has none.
C6_Testigo ==
  \E a, b \in DOMAIN tbl_pedido :
    /\ tbl_pedido[a].id_repartidor # NULL
    /\ tbl_pedido[a].estado_pedido = ESTADO_PEDIDO_ENTREGADO
    /\ tbl_pedido[b].id_repartidor = NULL
    /\ \E r \in Solicitudes : Fin(r) /\ solicitudes[r].op = "crear"
                              /\ solicitudes[r].resultado = R_OK
                              /\ solicitudes[r].id_pedido = b

\* the database is left as it was by a step
BaseSinCambio ==
  /\ tbl_pedido' = tbl_pedido
  /\ tbl_detalles_venta' = tbl_detalles_venta

\* the call that request r starts in this step is over in this step, with
\* outcome res, and nothing was written
RechazadaCon(r, res) ==
  /\ solicitudes'[r].pc = "fin"
  /\ solicitudes'[r].resultado = res
  /\ BaseSinCambio

\* request r starts, in this step, a courier transition on a stored order
\* whose courier is not the caller
IniciaUpdateAjeno(r) ==
  /\ Inicia(r, "update")
  /\ solicitudes'[r].id_pedido \in DOMAIN tbl_pedido
  /\ tbl_pedido[solicitudes'[r].id_pedido].id_repartidor # solicitudes'[r].id_repartidor

\* C7 as stated: a courier transition on a stored order whose courier is not
\* the caller fails with "no tienes permiso" (403) for every target state,
\* and writes nothing.
C7_Original ==
  [][ \A r \in Solicitudes :
        IniciaUpdateAjeno(r) => RechazadaCon(r, R_NO_TIENES_PERMISO) ]_vars

\* C7 as amended: a courier transition on a stored order whose courier is not
\* the caller fails and writes nothing for every target state: with "no
\* tienes permiso" (403) when the target is en_camino or entregado, with
\* "estado no permitido" (400) for every other target.
C7_NoPropietario ==
  [][ \A r \in Solicitudes :
        IniciaUpdateAjeno(r) =>
          RechazadaCon(r,
            IF solicitudes'[r].nuevo_estado
                 \in {ESTADO_PEDIDO_EN_CAMINO, ESTADO_PEDIDO_ENTREGADO}
            THEN R_NO_TIENES_PERMISO ELSE R_ESTADO_NO_PERMITIDO) ]_vars

\* C7 witness: a courier was refused (403) the transition of an order that
\* is assigned to another courier.
C7_Testigo ==
  \E r \in Solicitudes :
    /\ Fin(r) /\ solicitudes[r].op = "update"
    /\ solicitudes[r].resultado = R_NO_TIENES_PERMISO
    /\ solicitudes[r].id_pedido \in DOMAIN tbl_pedido
    /\ tbl_pedido[solicitudes[r].id_pedido].id_repartidor
         \notin {NULL, solicitudes[r].id_repartidor}

\* C8: a courier transition whose target is not en_camino or entregado is
\* rejected at once and writes nothing, and a courier transition that commits
\* changes nothing but the state of its order, to en_camino or entregado.
C8_SoloEnCaminoEntregado ==
  [][ \A r \in Solicitudes :
        /\ ( Inicia(r, "update")
             /\ solicitudes'[r].nuevo_estado
                  \notin {ESTADO_PEDIDO_EN_CAMINO, ESTADO_PEDIDO_ENTREGADO} )
           => RechazadaCon(r, R_ESTADO_NO_PERMITIDO)
        /\ Confirma(r, "update")
           => \A id \in DOMAIN tbl_pedido :
                tbl_pedido'[id].estado_pedido # tbl_pedido[id].estado_pedido
                => /\ id = solicitudes[r].id_pedido
                   /\ tbl_pedido'[id].estado_pedido
                        \in {ESTADO_PEDIDO_EN_CAMINO, ESTADO_PEDIDO_ENTREGADO} ]_vars

\* C8 witness: the courier of an order asked to cancel it and was rejected,
\* the order being as it was; and a courier transition has committed.
C8_Testigo ==
  \E r, o \in Solicitudes :
    /\ Fin(r) /\ solicitudes[r].op = "update"
    /\ solicitudes[r].nuevo_estado = ESTADO_PEDIDO_CANCELADO
    /\ solicitudes[r].resultado = R_ESTADO_NO_PERMITIDO
    /\ solicitudes[r].id_pedido \in DOMAIN tbl_pedido
    /\ tbl_pedido[solicitudes[r].id_pedido].id_repartidor = solicitudes[r].id_repartidor
    /\ Fin(o) /\ solicitudes[o].op = "update" /\ solicitudes[o].resultado = R_OK
    /\ solicitudes[o].id_pedido = solicitudes[r].id_pedido
    /\ tbl_pedido[solicitudes[r].id_pedido].estado_pedido = solicitudes[o].nuevo_estado

\* request r starts, in this step, a courier transition on an order id that
\* is not stored
IniciaUpdateInexistente(r) ==
  /\ Inicia(r, "update")
  /\ solicitudes'[r].id_pedido \notin DOMAIN tbl_pedido

\* C9 as stated: a courier transition on an order id that is not stored fails
\* with "pedido no encontrado" (404) for every target state, and no order is
\* created or modified.
C9_Original ==
  [][ \A r \in Solicitudes :
        IniciaUpdateInexistente(r)
        => /\ RechazadaCon(r, R_PEDIDO_NO_ENCONTRADO)
           /\ DOMAIN tbl_pedido' = DOMAIN tbl_pedido ]_vars

\* C9 as amended: a courier transition on an order id that is not stored
\* fails, and no order is created or modified, for every target state: with
\* "pedido no encontrado" (404) when the target is en_camino or entregado,
\* with "estado no permitido" (400) for every other target.
C9_NoEncontrado ==
  [][ \A r \in Solicitudes :
        IniciaUpdateInexistente(r)
        => /\ RechazadaCon(r,
                IF solicitudes'[r].nuevo_estado
                     \in {ESTADO_PEDIDO_EN_CAMINO, ESTADO_PEDIDO_ENTREGADO}
                THEN R_PEDIDO_NO_ENCONTRADO ELSE R_ESTADO_NO_PERMITIDO)
           /\ DOMAIN tbl_pedido' = DOMAIN tbl_pedido ]_vars

\* C9 witness: a courier transition on an id that is not stored was answered
\* "pedido no encontrado", and the id is still not stored.
C9_Testigo ==
  \E r \in Solicitudes :
    /\ Fin(r) /\ solicitudes[r].op = "update"
    /\ solicitudes[r].resultado = R_PEDIDO_NO_ENCONTRADO
    /\ solicitudes[r].id_pedido \notin DOMAIN tbl_pedido

\* C10: a claim fails at its checks, in this order and writing nothing: with
\* "pedido no encontrado" if the order is not stored; else with one of the two
\* already-assigned errors if it has a courier; else with "no esta listo" if
\* its state is not listo_para_recoger. A claim that fails so is over: it
\* never assigns a courier.
C10_OrdenDeChequeos ==
  [][ \A r \in Solicitudes :
        Inicia(r, "asignar") =>
          LET id == solicitudes'[r].id_pedido
          IN IF id \notin DOMAIN tbl_pedido
               THEN RechazadaCon(r, R_PEDIDO_NO_ENCONTRADO)
             ELSE IF tbl_pedido[id].id_repartidor # NULL
               THEN \/ RechazadaCon(r, R_ASIGNADO_A_OTRO)
                    \/ RechazadaCon(r, R_YA_TIENES_ASIGNADO)
             ELSE IF tbl_pedido[id].estado_pedido # ESTADO_PEDIDO_LISTO_PARA_RECOGER
               THEN RechazadaCon(r, R_NO_LISTO)
             ELSE BaseSinCambio ]_vars

\* C10 witness: a claim of an order in pendiente_confirmacion was answered
\* "no esta listo" and the order still has no courier.
C10_Testigo ==
  \E r \in Solicitudes :
    /\ Fin(r) /\ solicitudes[r].op = "asignar"
    /\ solicitudes[r].resultado = R_NO_LISTO
    /\ solicitudes[r].id_pedido \in DOMAIN tbl_pedido
    /\ tbl_pedido[solicitudes[r].id_pedido].estado_pedido
         = ESTADO_PEDIDO_PENDIENTE_CONFIRMACION
    /\ tbl_pedido[solicitudes[r].id_pedido].id_repartidor = NULL

\* C11: a claim by a courier of an order that is stored with that same
\* courier is rejected at once with "ya tienes este pedido asignado", an error
\* other than the "ya asignado a otro repartidor" given when the stored courier
\* is someone else, and the order is left as it was.
C11_ReclamoPropio ==
  [][ \A r \in Solicitudes :
        ( /\ Inicia(r, "asignar")
          /\ solicitudes'[r].id_pedido \in DOMAIN tbl_pedido
          /\ tbl_pedido[solicitudes'[r].id_pedido].id_repartidor # NULL )
        => IF tbl_pedido[solicitudes'[r].id_pedido].id_repartidor
                = solicitudes'[r].id_repartidor
           THEN /\ RechazadaCon(r, R_YA_TIENES_ASIGNADO)
                /\ solicitudes'[r].resultado # R_ASIGNADO_A_OTRO
           ELSE /\ RechazadaCon(r, R_ASIGNADO_A_OTRO)
                /\ solicitudes'[r].resultado # R_YA_TIENES_ASIGNADO ]_vars

\* C11 witness: a courier claimed an order it already holds, was answered
\* "ya tienes este pedido asignado", and still holds it.
C11_Testigo ==
  \E r \in Solicitudes :
    /\ Fin(r) /\ solicitudes[r].op = "asignar"
    /\ solicitudes[r].resultado = R_YA_TIENES_ASIGNADO
    /\ solicitudes[r].id_pedido \in DOMAIN tbl_pedido
    /\ tbl_pedido[solicitudes[r].id_pedido].id_repartidor = solicitudes[r].id_repartidor
    /\ tbl_pedido[solicitudes[r].id_pedido].estado_pedido \in EstadosConRepartidor

\* C12: when the claims of an order do not overlap, a claim that starts after
\* a claim of that order has committed is rejected in its first step with one
\* of the two already-assigned errors and is not tried again, and from that
\* commit on no step changes the courier of the order and no claim changes
\* its state.
C12_ReclamosSucesivos ==
  [][ /\ \A r \in Solicitudes :
           ( /\ Inicia(r, "asignar")
             /\ solicitudes'[r].id_pedido \in DOMAIN tbl_pedido
             /\ tbl_pedido[solicitudes'[r].id_pedido].id_repartidor # NULL )
           => /\ solicitudes'[r].resultado \in {R_ASIGNADO_A_OTRO, R_YA_TIENES_ASIGNADO}
              /\ solicitudes'[r].pc = "fin"
              /\ solicitudes'[r].escrito = <<>>
      /\ \A id \in DOMAIN tbl_pedido :
           tbl_pedido[id].id_repartidor # NULL
           => /\ tbl_pedido'[id].id_repartidor = tbl_pedido[id].id_repartidor
              /\ tbl_pedido'[id].estado_pedido # tbl_pedido[id].estado_pedido
                 => \E r \in Solicitudes :
                      Confirma(r, "update") /\ solicitudes[r].id_pedido = id ]_vars

\* C12 witness: a claim of an order succeeded, a later claim of it by another
\* courier was answered "ya asignado a otro repartidor", and the order is as
\* the first claim left it.
C12_Testigo ==
  \E g, p \in Solicitudes :
    /\ Fin(g) /\ solicitudes[g].op = "asignar" /\ solicitudes[g].resultado = R_OK
    /\ Fin(p) /\ solicitudes[p].op = "asignar"
    /\ solicitudes[p].resultado = R_ASIGNADO_A_OTRO
    /\ solicitudes[p].id_pedido = solicitudes[g].id_pedido
    /\ tbl_pedido[solicitudes[g].id_pedido].id_repartidor = solicitudes[g].id_repartidor
    /\ tbl_pedido[solicitudes[g].id_pedido].estado_pedido
         = ESTADO_PEDIDO_RECOGIDO_POR_REPARTIDOR

\* C13: the commit of a claim of an order stored as listo_para_recoger with no
\* courier sets the state to recogido_por_repartidor and the courier to the
\* caller in that one step and changes nothing else of the row; and no step
\* gives an order its first courier without moving it from listo_para_recoger
\* to recogido_por_repartidor, or moves it out of listo_para_recoger without
\* giving it a courier.
C13_EstadoYRepartidorJuntos ==
  [][ /\ \A r \in Solicitudes :
           ( /\ Confirma(r, "asignar")
             /\ tbl_pedido[solicitudes[r].id_pedido].estado_pedido
                  = ESTADO_PEDIDO_LISTO_PARA_RECOGER
             /\ tbl_pedido[solicitudes[r].id_pedido].id_repartidor = NULL )
           => tbl_pedido'[solicitudes[r].id_pedido]
                = [ tbl_pedido[solicitudes[r].id_pedido] EXCEPT
                      !.estado_pedido = ESTADO_PEDIDO_RECOGIDO_POR_REPARTIDOR,
                      !.id_repartidor = solicitudes[r].id_repartidor ]
      /\ \A id \in DOMAIN tbl_pedido :
           /\ ( tbl_pedido[id].id_repartidor = NULL
                /\ tbl_pedido'[id].id_repartidor # NULL )
              => /\ tbl_pedido[id].estado_pedido = ESTADO_PEDIDO_LISTO_PARA_RECOGER
                 /\ tbl_pedido'[id].estado_pedido = ESTADO_PEDIDO_RECOGIDO_POR_REPARTIDOR
           /\ ( tbl_pedido[id].estado_pedido = ESTADO_PEDIDO_LISTO_PARA_RECOGER
                /\ tbl_pedido'[id].estado_pedido # ESTADO_PEDIDO_LISTO_PARA_RECOGER )
              => /\ tbl_pedido'[id].estado_pedido = ESTADO_PEDIDO_RECOGIDO_POR_REPARTIDOR
                 /\ tbl_pedido'[id].id_repartidor # NULL ]_vars

\* C13 witness: a claim that read its order as listo_para_recoger with no
\* courier has committed, and the order is recogido_por_repartidor with the
\* caller as courier.
C13_Testigo ==
  \E r \in Solicitudes :
    /\ Fin(r) /\ solicitudes[r].op = "asignar" /\ solicitudes[r].resultado = R_OK
    /\ solicitudes[r].pedido_actual # <<>>
    /\ solicitudes[r].pedido_actual[1].estado_pedido = ESTADO_PEDIDO_LISTO_PARA_RECOGER
    /\ solicitudes[r].pedido_actual[1].id_repartidor = NULL
    /\ tbl_pedido[solicitudes[r].id_pedido]
         = [ solicitudes[r].pedido_actual[1] EXCEPT
               !.estado_pedido = ESTADO_PEDIDO_RECOGIDO_POR_REPARTIDOR,
               !.id_repartidor = solicitudes[r].id_repartidor ]

\* the payload names only products of the catalog
ProductosConocidos(order_data) ==
  \A i \in 1..Len(order_data.items) :
    order_data.items[i].nombre_producto \in DOMAIN tbl_producto

\* the declared total is within one hundredth of the sum of
\* cantidad * precio_unitario, in exact arithmetic
DentroDeTolerancia(order_data) ==
  Abs(calculated_total(order_data.items) - order_data.total_pedido) <= TOLERANCIA_TOTAL

\* C14: in every reachable state, a creation whose declared total is within
\* 0.01 of the sum of its items and whose products all exist (the database
\* raising no error) succeeds and stores exactly one new order, in
\* pendiente_confirmacion, with no courier, with the client and total of the
\* payload, and exactly one line item per item of the payload, with its
\* product and its quantity; every other row is left as it was.
C14_PersisteExacto ==
  \A c \in CargasAmplias :
    ( /\ seq_pedido <= MaxPedidos
      /\ DentroDeTolerancia(c)
      /\ ProductosConocidos(c) )
    => LET tx == TransaccionCrear(c, 0)
           id == tx.id_pedido
           nuevas == tx.tbl_detalles_venta \ tbl_detalles_venta
       IN /\ tx.resultado = R_OK
          /\ id \notin DOMAIN tbl_pedido
          /\ DOMAIN tx.tbl_pedido = DOMAIN tbl_pedido \cup {id}
          /\ \A i \in DOMAIN tbl_pedido : tx.tbl_pedido[i] = tbl_pedido[i]
          /\ tx.tbl_pedido[id].estado_pedido = ESTADO_PEDIDO_PENDIENTE_CONFIRMACION
          /\ tx.tbl_pedido[id].id_repartidor = NULL
          /\ tx.tbl_pedido[id].id_cliente = c.id_cliente
          /\ tx.tbl_pedido[id].total_pedido = c.total_pedido
          /\ tbl_detalles_venta \subseteq tx.tbl_detalles_venta
          /\ Cardinality(nuevas) = Len(c.items)
          /\ \A d \in nuevas : d.id_pedido = id
          /\ \A i \in 1..Len(c.items) :
               \E d \in nuevas :
                 /\ d.id_detalle_venta = i
                 /\ d.cantidad_articulo = c.items[i].cantidad
                 /\ d.id_producto
                      = tbl_producto[c.items[i].nombre_producto].id_producto

\* C15: in every reachable state, a creation is rejected with "el total no
\* coincide" exactly when its declared total is more than 0.01 away from the
\* sum of its items (a distance of exactly 0.01 is accepted), and a creation
\* rejected so stores nothing and draws no order id.
C15_Tolerancia ==
  \A c \in CargasAmplias, f \in FallosBD :
    LET tx == TransaccionCrear(c, f)
    IN /\ (tx.resultado = R_TOTAL_NO_COINCIDE) <=> ~DentroDeTolerancia(c)
       /\ tx.resultado = R_TOTAL_NO_COINCIDE
          => /\ tx.tbl_pedido = tbl_pedido
             /\ tx.tbl_detalles_venta = tbl_detalles_venta
             /\ tx.seq_pedido = seq_pedido

\* C16: in every reachable state, a creation that names an unknown product at
\* any position, or in which an INSERT raises a database error, fails, and
\* tbl_pedido and tbl_detalles_venta are left as they were: with "producto no
\* encontrado" when the total check passed and no database error came first.
C16_Atomica ==
  \A c \in CargasAmplias, f \in FallosBD :
    ( /\ f <= Len(c.items) + 1
      /\ ~ProductosConocidos(c) \/ f # 0 )
    => LET tx == TransaccionCrear(c, f)
       IN /\ tx.resultado
               \in {R_TOTAL_NO_COINCIDE, R_PRODUCTO_NO_ENCONTRADO, R_ERROR_BASE_DE_DATOS}
          /\ tx.tbl_pedido = tbl_pedido
          /\ tx.tbl_detalles_venta = tbl_detalles_venta
          /\ (tx.resultado # R_TOTAL_NO_COINCIDE /\ f = 0)
             => tx.resultado = R_PRODUCTO_NO_ENCONTRADO

\* C16 witness: a creation drew an order id, ended with "producto no
\* encontrado", and neither that order nor a line item of it is stored.
C16_Testigo ==
  \E r \in Solicitudes :
    /\ Fin(r) /\ solicitudes[r].op = "crear"
    /\ solicitudes[r].resultado = R_PRODUCTO_NO_ENCONTRADO
    /\ solicitudes[r].id_pedido # 0
    /\ solicitudes[r].id_pedido < seq_pedido
    /\ solicitudes[r].id_pedido \notin DOMAIN tbl_pedido
    /\ \A d \in tbl_detalles_venta : d.id_pedido # solicitudes[r].id_pedido

\* sum of cantidad * precio_unitario over the items of a response
RECURSIVE SumaItems(_)
SumaItems(items) ==
  IF items = {} THEN 0
  ELSE LET it == CHOOSE x \in items : TRUE
       IN it.cantidad * it.precio_unitario + SumaItems(items \ {it})

\* C17: whatever the catalog price of a product has become, every order
\* returned by get_orders_by_client_id carries its items at the prices they
\* were ordered at: their cantidad * precio_unitario sum to the total_pedido
\* of the order within 0.01.
C17_PrecioFijo ==
  \A c \in Clientes :
    \A pedido \in get_orders_by_client_id(c) :
      Abs(SumaItems(pedido.items) - pedido.total_pedido) <= TOLERANCIA_TOTAL

\* C18: a courier transition that has executed its UPDATE (and holds the row
\* until its transaction ends) wrote over the row it had read and checked:
\* the stored row is still the one its SELECT returned.
C18_EscrituraSobreLoLeido ==
  \A r \in Solicitudes :
    solicitudes[r].pc = "update_detalles"
    => tbl_pedido[solicitudes[r].id_pedido] = solicitudes[r].pedido_actual[1]

\* C19: a call of a mutating operation that answers its HTTP caller with an
\* error has left tbl_pedido and tbl_detalles_venta as they were (so that a
\* call that changed them answers with success).
C19_TodoONada ==
  [][ \A r \in Solicitudes :
        ( /\ solicitudes'[r] # solicitudes[r]
          /\ solicitudes'[r].pc = "fin"
          /\ RespuestaHTTP(solicitudes'[r]) # R_OK )
        => BaseSinCambio ]_vars

\* the call that request r has finished is a step of the round trip of its
\* order: the claim of the order read as listo_para_recoger with no courier,
\* the move to en_camino of the order read as recogido_por_repartidor, or the
\* move to entregado of the order read as en_camino, by its courier
PasoDeIdaYVuelta(r) ==
  /\ Fin(r)
  /\ solicitudes[r].pedido_actual # <<>>
  /\ LET leido == solicitudes[r].pedido_actual[1]
     IN \/ /\ solicitudes[r].op = "asignar"
           /\ leido.estado_pedido = ESTADO_PEDIDO_LISTO_PARA_RECOGER
           /\ leido.id_repartidor = NULL
        \/ /\ solicitudes[r].op = "update"
           /\ leido.id_repartidor = solicitudes[r].id_repartidor
           /\ <<leido.estado_pedido, solicitudes[r].nuevo_estado>>
                \in { <<ESTADO_PEDIDO_RECOGIDO_POR_REPARTIDOR, ESTADO_PEDIDO_EN_CAMINO>>,
                      <<ESTADO_PEDIDO_EN_CAMINO, ESTADO_PEDIDO_ENTREGADO>> }

\* the state the order of request r is in after the step of the round trip
EstadoTrasPaso(r) ==
  IF solicitudes[r].op = "asignar" THEN ESTADO_PEDIDO_RECOGIDO_POR_REPARTIDOR
  ELSE solicitudes[r].nuevo_estado

\* C20: with one caller at a time (every other request handler has never run
\* a call), each step of the round trip of a stored order - claim by courier
\* C, then en_camino, then entregado - answers its HTTP caller with success
\* and leaves the order in the state of the step, with courier C, and with
\* the line items it was stored with.
C20_IdaYVuelta ==
  \A r \in Solicitudes :
    ( /\ PasoDeIdaYVuelta(r)
      /\ \A o \in Solicitudes \ {r} : solicitudes[o] = SolicitudLibre )
    => /\ RespuestaHTTP(solicitudes[r]) = R_OK
       /\ tbl_pedido[solicitudes[r].id_pedido].estado_pedido = EstadoTrasPaso(r)
       /\ tbl_pedido[solicitudes[r].id_pedido].id_repartidor
            = solicitudes[r].id_repartidor
       /\ tbl_detalles_venta = DetallesIniciales

\* C21: the operations of the program carry every stored order along the
\* edges of the unowned part of the lifecycle graph: an order in
\* pendiente_confirmacion comes to be confirmado_por_restaurante or cancelado,
\* and an order in confirmado_por_restaurante comes to be listo_para_recoger
\* or cancelado.
C21_AristasEjecutables ==
  \A id \in PedidoIds :
    /\ ( id \in DOMAIN tbl_pedido
         /\ tbl_pedido[id].estado_pedido = ESTADO_PEDIDO_PENDIENTE_CONFIRMACION )
       ~> ( id \in DOMAIN tbl_pedido
            /\ tbl_pedido[id].estado_pedido
                 \in {ESTADO_PEDIDO_CONFIRMADO_POR_RESTAURANTE, ESTADO_PEDIDO_CANCELADO} )
    /\ ( id \in DOMAIN tbl_pedido
         /\ tbl_pedido[id].estado_pedido = ESTADO_PEDIDO_CONFIRMADO_POR_RESTAURANTE )
       ~> ( id \in DOMAIN tbl_pedido
            /\ tbl_pedido[id].estado_pedido
                 \in {ESTADO_PEDIDO_LISTO_PARA_RECOGER, ESTADO_PEDIDO_CANCELADO} )

\* ------------------------------------------------------------------ C22
\* the ids of the orders a read of the available orders returns now
IdsDisponibles ==
  { p.id_pedido : p \in get_pedidos_disponibles_para_repartidor }

\* C22: at every moment a read of the available orders returns exactly the
\* stored orders that are ready for pickup and have no courier, each as it is
\* stored; and an order on which a claim has committed, or which has a
\* courier, is in no result read after that step.
C22_SoloDisponibles ==
  /\ [] ( /\ IdsDisponibles =
               { id \in DOMAIN tbl_pedido :
                   /\ tbl_pedido[id].estado_pedido
                        = ESTADO_PEDIDO_LISTO_PARA_RECOGER
                   /\ tbl_pedido[id].id_repartidor = NULL }
          /\ \A p \in get_pedidos_disponibles_para_repartidor :
               /\ p.estado_pedido = ESTADO_PEDIDO_LISTO_PARA_RECOGER
               /\ p.id_repartidor = NULL
               /\ p.id_cliente = tbl_pedido[p.id_pedido].id_cliente
               /\ p.total_pedido = tbl_pedido[p.id_pedido].total_pedido )
  /\ [][ /\ \A r \in Solicitudes :
              Confirma(r, "asignar")
                => solicitudes[r].id_pedido \notin IdsDisponibles'
         /\ \A id \in DOMAIN tbl_pedido :
              ( tbl_pedido[id].id_repartidor # NULL
                \/ id \notin IdsDisponibles )
                => id \notin IdsDisponibles' ]_vars

\* a claim has committed on an order: the order has a courier and is not in
\* the result of a read made now
C22_Testigo ==
  \E r \in Solicitudes :
    /\ Fin(r)
    /\ solicitudes[r].op = "asignar"
    /\ solicitudes[r].resultado = R_OK
    /\ solicitudes[r].id_pedido \in DOMAIN tbl_pedido
    /\ solicitudes[r].id_pedido \notin IdsDisponibles
    /\ tbl_pedido[solicitudes[r].id_pedido].id_repartidor # NULL

\* ------------------------------------------------------------------ C23
\* the line items stored for an order, as (id, order, quantity)
DetallesDe(id_pedido) ==
  { <<dv.id_detalle_venta, dv.id_pedido, dv.cantidad_articulo>> :
      dv \in { d \in tbl_detalles_venta : d.id_pedido = id_pedido } }

\* C23: the list get_orders_by_client_id returns for a client holds every
\* stored order of that client once and no order of another client, an order
\* never comes before one created after it, and each order carries exactly
\* the line items stored for it.
C23_HistorialDelCliente ==
  \A c \in ClientesHistorial :
    LET lista == lista_pedidos_completos(c)
    IN /\ { lista[k].id_pedido : k \in 1..Len(lista) }
            = { id \in DOMAIN tbl_pedido : tbl_pedido[id].id_cliente = c }
       /\ \A k, l \in 1..Len(lista) :
            k < l => /\ lista[k].id_pedido # lista[l].id_pedido
                     /\ lista[k].fecha_pedido > lista[l].fecha_pedido
                     /\ lista[k].id_pedido > lista[l].id_pedido
       /\ \A k \in 1..Len(lista) :
            /\ lista[k].id_cliente = c
            /\ { <<it.id, it.order_id, it.cantidad>> : it \in lista[k].items }
                 = DetallesDe(lista[k].id_pedido)

\* a client has two orders with items, the later one created by
\* create_order_with_items, and the list has both
C23_Testigo ==
  \E c \in ClientesHistorial :
    /\ Len(lista_pedidos_completos(c)) = 2
    /\ \E r \in Solicitudes :
         /\ solicitudes[r].op = "crear"
         /\ solicitudes[r].resultado = R_OK
         /\ solicitudes[r].id_pedido = lista_pedidos_completos(c)[1].id_pedido
    /\ \A k \in 1..2 : lista_pedidos_completos(c)[k].items # {}

\* ------------------------------------------------------------------ C24
\* the ids of the orders the list of a courier's assigned orders holds now
IdsAsignados(id_repartidor) ==
  { p.pedido.id_pedido :
      p \in get_pedidos_asignados_a_repartidor(id_repartidor).pedidos }

\* C24: at every moment the read of a courier's assigned orders succeeds and
\* lists exactly the stored orders whose courier is that courier and whose
\* state is neither entregado nor cancelado, each with its own line items; no
\* order of another courier is in it, and the order a courier has just marked
\* entregado is in no list read when that transition has committed.
C24_SoloAsignados ==
  /\ [] \A rep \in Repartidores :
          /\ get_pedidos_asignados_a_repartidor(rep).resultado = R_OK
          /\ IdsAsignados(rep) =
               { id \in DOMAIN tbl_pedido :
                   /\ tbl_pedido[id].id_repartidor = rep
                   /\ tbl_pedido[id].estado_pedido # ESTADO_PEDIDO_ENTREGADO
                   /\ tbl_pedido[id].estado_pedido # ESTADO_PEDIDO_CANCELADO }
          /\ \A p \in get_pedidos_asignados_a_repartidor(rep).pedidos :
               /\ p.pedido.id_repartidor = rep
               /\ \A otro \in Repartidores \ {rep} :
                    p.pedido.id_pedido \notin IdsAsignados(otro)
               /\ \A it \in p.items : it.order_id = p.pedido.id_pedido
               /\ { it.id : it \in p.items }
                    = { dv.id_detalle_venta :
                          dv \in { d \in tbl_detalles_venta :
                                     d.id_pedido = p.pedido.id_pedido } }
  /\ [][ \A r \in Solicitudes :
           ( Confirma(r, "update")
             /\ solicitudes[r].nuevo_estado = ESTADO_PEDIDO_ENTREGADO )
             => \A rep \in Repartidores :
                  solicitudes[r].id_pedido \notin IdsAsignados(rep)' ]_vars

\* a courier has marked an order entregado: the order is still that courier's
\* and is in nobody's list
C24_Testigo ==
  \E r \in Solicitudes :
    /\ Fin(r)
    /\ solicitudes[r].op = "update"
    /\ solicitudes[r].resultado = R_OK
    /\ solicitudes[r].nuevo_estado = ESTADO_PEDIDO_ENTREGADO
    /\ tbl_pedido[solicitudes[r].id_pedido].id_repartidor
         = solicitudes[r].id_repartidor
    /\ tbl_pedido[solicitudes[r].id_pedido].estado_pedido
         = ESTADO_PEDIDO_ENTREGADO
    /\ \A rep \in Repartidores :
         solicitudes[r].id_pedido \notin IdsAsignados(rep)

\* ------------------------------------------------------------------ C25
\* C25: no step removes an order or a line item: every stored order is still
\* stored after the step, under the same id and with the same client, and
\* the line items stored for it are the same; this holds for the orders in
\* entregado and cancelado as for every other.
C25_NadaSeBorra ==
  [][ /\ DOMAIN tbl_pedido \subseteq DOMAIN tbl_pedido'
      /\ tbl_detalles_venta \subseteq tbl_detalles_venta'
      /\ \A id \in DOMAIN tbl_pedido :
           /\ tbl_pedido'[id].id_cliente = tbl_pedido[id].id_cliente
           /\ { d \in tbl_detalles_venta' : d.id_pedido = id }
                = { d \in tbl_detalles_venta : d.id_pedido = id } ]_vars

\* an order has been delivered and is stored with its client and line item,
\* next to an order created in the meantime
C25_Testigo ==
  \E id \in DOMAIN tbl_pedido :
    /\ tbl_pedido[id].estado_pedido = ESTADO_PEDIDO_ENTREGADO
    /\ tbl_pedido[id].id_cliente \in Clientes
    /\ { d \in tbl_detalles_venta : d.id_pedido = id } # {}
    /\ \E otro \in DOMAIN tbl_pedido :
         /\ otro # id
         /\ \E r \in Solicitudes : /\ solicitudes[r].op = "crear"
                                   /\ solicitudes[r].id_pedido = otro

\* ------------------------------------------------------------------ C26
\* the outcomes a claim or a courier transition can end with
ResultadosDeReparto ==
  { R_OK, R_PEDIDO_NO_ENCONTRADO, R_YA_TIENES_ASIGNADO, R_ASIGNADO_A_OTRO,
    R_NO_LISTO, R_NO_SE_PUDO_ASIGNAR, R_ESTADO_NO_PERMITIDO,
    R_NO_TIENES_PERMISO, R_NO_SE_PUDO_ACTUALIZAR, R_ERROR_INESPERADO }

\* C26: every claim and every courier transition that has started ends, with
\* success or with one of the named errors, whatever the other requests do:
\* a call waiting for the row another call has written goes on when that
\* call's transaction ends.
C26_Termina ==
  \A r \in Solicitudes :
    ( solicitudes[r].pc # "fin" )
      ~> ( /\ solicitudes[r].pc = "fin"
           /\ solicitudes[r].resultado \in ResultadosDeReparto )

\* a claim that has read the order waits at its UPDATE for the row that
\* another call's transaction has written and not yet committed
C26_Testigo ==
  \E r \in Solicitudes :
    /\ solicitudes[r].pc \in {"asignar_update", "update_update"}
    /\ FilaBloqueadaPorOtro(r, solicitudes[r].id_pedido)

\* ------------------------------------------------------------------ C27
\* C27: every stored line item has a quantity of at least 1: whatever
\* quantities the items of a call of create_order_with_items carry, no line
\* item with quantity 0 or less is stored.
C27_CantidadPositiva ==
  \A d \in tbl_detalles_venta : d.cantidad_articulo >= 1

\* ------------------------------------------------------------------ C28
\* C28: a courier's read of an order's detail returns the order only when
\* the stored order has that courier, and returns it as stored; a read that
\* found no such row ends with 404 when no order has the id and with 403
\* when one has, the HTTP caller receives the same 404 or 403; and no step
\* of the read changes a table.
C28_DetalleSoloAsignado ==
  [][ \A r \in Solicitudes :
        ( solicitudes'[r] # solicitudes[r] /\ solicitudes'[r].op = "detalle" )
          => /\ <<tbl_pedido, tbl_detalles_venta, tbl_producto, seq_pedido>>'
                  = <<tbl_pedido, tbl_detalles_venta, tbl_producto, seq_pedido>>
             /\ LET id == solicitudes'[r].id_pedido
                    rep == solicitudes'[r].id_repartidor
                    asignado == /\ id \in DOMAIN tbl_pedido
                                /\ tbl_pedido[id].id_repartidor = rep
                IN /\ solicitudes'[r].resultado = R_OK
                        => /\ asignado
                           /\ solicitudes'[r].pedido_actual = <<tbl_pedido[id]>>
                   /\ ( solicitudes[r].pc = "fin" /\ ~asignado )
                        => solicitudes'[r].pc = "detalle_existe"
                   /\ ( solicitudes[r].pc = "fin" /\ asignado )
                        => solicitudes'[r].resultado = R_OK
                   /\ solicitudes[r].pc = "detalle_existe"
                        => /\ solicitudes'[r].pc = "fin"
                           /\ id \notin DOMAIN tbl_pedido
                                => solicitudes'[r].resultado
                                     = R_PEDIDO_NO_ENCONTRADO
                           /\ id \in DOMAIN tbl_pedido
                                => solicitudes'[r].resultado
                                     = R_NO_TE_HA_SIDO_ASIGNADO
                           /\ RespuestaHTTP(solicitudes'[r])
                                = solicitudes'[r].resultado ]_vars

\* a courier has been refused the detail of an order that another courier has
\* claimed, and the claiming courier has been given it
C28_Testigo ==
  \E r, o \in Solicitudes :
    /\ Fin(r) /\ Fin(o)
    /\ solicitudes[r].op = "detalle" /\ solicitudes[o].op = "detalle"
    /\ solicitudes[r].id_pedido = solicitudes[o].id_pedido
    /\ solicitudes[r].resultado = R_NO_TE_HA_SIDO_ASIGNADO
    /\ solicitudes[o].resultado = R_OK
    /\ solicitudes[o].pedido_actual # <<>>
    /\ solicitudes[o].pedido_actual[1].id_repartidor = solicitudes[o].id_repartidor

\* ------------------------------------------------------------------ C29
\* C29: when a courier transition reaches its UPDATE and the stored order no
\* longer has the acting courier (a claim committed since the transition
\* read the order), the UPDATE writes nothing: the call ends there with the
\* error of the unmatched UPDATE, for the HTTP caller too, and no table has
\* changed.
C29_EscrituraGuardadaPorRepartidor ==
  [][ \A r \in Solicitudes :
        ( /\ solicitudes[r].pc = "update_update"
          /\ solicitudes'[r] # solicitudes[r]
          /\ tbl_pedido[solicitudes[r].id_pedido].id_repartidor
               # solicitudes[r].id_repartidor )
          => /\ solicitudes'[r].pc = "fin"
             /\ solicitudes'[r].escrito = <<>>
             /\ solicitudes'[r].resultado = R_NO_SE_PUDO_ACTUALIZAR
             /\ RespuestaHTTP(solicitudes'[r]) = R_NO_SE_PUDO_ACTUALIZAR
             /\ tbl_pedido' = tbl_pedido
             /\ tbl_detalles_venta' = tbl_detalles_venta ]_vars

\* a transition had read the order as the acting courier's, a racing claim
\* then gave the order to another courier, and the transition ended with the
\* error of the unmatched UPDATE
C29_Testigo ==
  \E r \in Solicitudes :
    /\ Fin(r)
    /\ solicitudes[r].op = "update"
    /\ solicitudes[r].resultado = R_NO_SE_PUDO_ACTUALIZAR
    /\ solicitudes[r].pedido_actual # <<>>
    /\ solicitudes[r].pedido_actual[1].id_repartidor = solicitudes[r].id_repartidor
    /\ tbl_pedido[solicitudes[r].id_pedido].id_repartidor
         \notin {NULL, solicitudes[r].id_repartidor}
    /\ tbl_pedido[solicitudes[r].id_pedido].estado_pedido
         = ESTADO_PEDIDO_RECOGIDO_POR_REPARTIDOR

\* ------------------------------------------------------------------ C30
\* the step leaves everything but the row of order id as it was
SoloCambiaElPedido(id) ==
  /\ DOMAIN tbl_pedido' = DOMAIN tbl_pedido
  /\ \A otro \in DOMAIN tbl_pedido \ {id} : tbl_pedido'[otro] = tbl_pedido[otro]
  /\ tbl_detalles_venta' = tbl_detalles_venta
  /\ tbl_producto' = tbl_producto
  /\ seq_pedido' = seq_pedido

\* C30: the commit of a successful claim changes, in the whole store, only
\* estado_pedido and id_repartidor of the claimed order, and the commit of a
\* successful courier transition only estado_pedido of its order: client,
\* total, the line items of the order and every other order stay as they
\* were.
C30_Marco ==
  [][ \A r \in Solicitudes :
        /\ Confirma(r, "asignar")
             => /\ SoloCambiaElPedido(solicitudes[r].id_pedido)
                /\ tbl_pedido'[solicitudes[r].id_pedido]
                     = [tbl_pedido[solicitudes[r].id_pedido] EXCEPT
                          !.estado_pedido =
                             tbl_pedido'[solicitudes[r].id_pedido].estado_pedido,
                          !.id_repartidor =
                             tbl_pedido'[solicitudes[r].id_pedido].id_repartidor]
        /\ Confirma(r, "update")
             => /\ SoloCambiaElPedido(solicitudes[r].id_pedido)
                /\ tbl_pedido'[solicitudes[r].id_pedido]
                     = [tbl_pedido[solicitudes[r].id_pedido] EXCEPT
                          !.estado_pedido =
                             tbl_pedido'[solicitudes[r].id_pedido].estado_pedido]
    ]_vars

\* a courier's transition has committed on one order while another order,
\* created by a client, is stored with its line items
C30_Testigo ==
  \E r, o \in Solicitudes :
    /\ Fin(r)
    /\ solicitudes[r].op = "update"
    /\ solicitudes[r].resultado = R_OK
    /\ tbl_pedido[solicitudes[r].id_pedido].estado_pedido
         = solicitudes[r].nuevo_estado
    /\ solicitudes[o].op = "crear"
    /\ solicitudes[o].resultado = R_OK
    /\ solicitudes[o].id_pedido \in DOMAIN tbl_pedido
    /\ solicitudes[o].id_pedido # solicitudes[r].id_pedido
    /\ \E d \in tbl_detalles_venta : d.id_pedido = solicitudes[o].id_pedido

\* ------------------------------------------------------------------ C31
\* C31: whatever state the payload of a creation carries, the order the
\* creation stores is in pendiente_confirmacion without a courier; it is so
\* for every payload that could be sent now, and every order a finished
\* creation has stored is still so, whatever claims were tried on it.
C31_EstadoInicialFijo ==
  /\ \A c \in CargasConEstado :
       LET tx == TransaccionCrear(c, 0)
       IN tx.resultado = R_OK
            => /\ tx.id_pedido \in DOMAIN tx.tbl_pedido
               /\ tx.tbl_pedido[tx.id_pedido].estado_pedido
                    = ESTADO_PEDIDO_PENDIENTE_CONFIRMACION
               /\ tx.tbl_pedido[tx.id_pedido].id_repartidor = NULL
  /\ \A r \in Solicitudes :
       ( solicitudes[r].op = "crear" /\ solicitudes[r].resultado = R_OK )
         => /\ tbl_pedido[solicitudes[r].id_pedido].estado_pedido
                 = ESTADO_PEDIDO_PENDIENTE_CONFIRMACION
            /\ tbl_pedido[solicitudes[r].id_pedido].id_repartidor = NULL

\* an order has been created from a payload naming another state, and a
\* courier's claim of it has been refused because it is not ready
C31_Testigo ==
  \E r, o \in Solicitudes :
    /\ solicitudes[r].op = "crear"
    /\ solicitudes[r].resultado = R_OK
    /\ Fin(o)
    /\ solicitudes[o].op = "asignar"
    /\ solicitudes[o].id_pedido = solicitudes[r].id_pedido
    /\ solicitudes[o].resultado = R_NO_LISTO

\* ------------------------------------------------------------------ C32
\* C32: in every state no order is both in the result of the
\* available-orders read and in the assigned-orders list of a courier, and
\* no order is in the assigned-orders lists of two couriers.
C32_ListasDisjuntas ==
  /\ \A rep \in Repartidores : IdsDisponibles \cap IdsAsignados(rep) = {}
  /\ \A a, b \in Repartidores :
       a # b => IdsAsignados(a) \cap IdsAsignados(b) = {}

\* two couriers' racing claims of one order have both succeeded, and the
\* order is in the list of one of them only and not among the available
C32_Testigo ==
  \E r, o \in Solicitudes :
    /\ Fin(r) /\ Fin(o)
    /\ solicitudes[r].op = "asignar" /\ solicitudes[o].op = "asignar"
    /\ solicitudes[r].resultado = R_OK /\ solicitudes[o].resultado = R_OK
    /\ solicitudes[r].id_pedido = solicitudes[o].id_pedido
    /\ solicitudes[r].id_repartidor # solicitudes[o].id_repartidor
    /\ solicitudes[r].id_pedido \in IdsAsignados(solicitudes[r].id_repartidor)
    /\ solicitudes[r].id_pedido \notin IdsAsignados(solicitudes[o].id_repartidor)
    /\ solicitudes[r].id_pedido \notin IdsDisponibles

\* ------------------------------------------------------------------ C33
\* C33: for every token of a client and every payload, a creation whose
\* id_cliente is not the token's client is answered 403 and leaves the tables
\* and the id sequence as they are, and an order a creation stores
\* belongs to the token's client; a listing by client id is answered 403 for
\* an id that is not the token's client, and a list that is returned holds
\* only orders of the token's client.
C33_SoloElClienteDelToken ==
  \A cliente \in ClientesConToken :
    /\ \A c \in CargasHistorial :
         LET tx == PeticionCrear(str(cliente), c)
         IN /\ c.id_cliente # cliente
                 => /\ tx.resultado = R_CLIENTE_NO_COINCIDE
                    /\ tx.tbl_pedido = tbl_pedido
                    /\ tx.tbl_detalles_venta = tbl_detalles_venta
                    /\ tx.seq_pedido = seq_pedido
            /\ \A id \in DOMAIN tx.tbl_pedido \ DOMAIN tbl_pedido :
                 tx.tbl_pedido[id].id_cliente = cliente
    /\ \A param \in ClientesHistorial :
         LET res == get_user_orders_by_client_id_param(str(cliente), param)
         IN /\ param # cliente
                 => res.resultado = R_NO_AUTORIZADO_A_VER /\ res.orders = <<>>
            /\ \A k \in 1..Len(res.orders) : res.orders[k].id_cliente = cliente

\* a creation for another client's id has been answered 403, a creation for
\* the token's own client has stored an order, and orders of both clients
\* are stored
C33_Testigo ==
  /\ \E r, o \in Solicitudes :
       /\ solicitudes[r].op = "crear"
       /\ solicitudes[r].resultado = R_CLIENTE_NO_COINCIDE
       /\ solicitudes[o].op = "crear"
       /\ solicitudes[o].resultado = R_OK
       /\ solicitudes[o].id_pedido \in DOMAIN tbl_pedido
  /\ \A c \in ClientesHistorial :
       \E id \in DOMAIN tbl_pedido : tbl_pedido[id].id_cliente = c

\* ------------------------------------------------------------------ C34
\* C34: the token the courier login issues to a courier is accepted by
\* get_current_repartidor while it has not expired, with the id_repartidor
\* and the role "repartidor" that the login put into it, so that no call of
\* the claim endpoint ends in the authenticator with an internal error; and
\* a token of the client login, whose role is "cliente", is rejected with 403.
C34_TokenDeRepartidorAceptado ==
  /\ \A r \in Solicitudes :
       solicitudes[r].resultado
         \notin {R_ERROR_AUTENTICACION, R_CREDENCIALES_REPARTIDOR}
  /\ \A rep \in Repartidores :
       LET token_data == get_current_repartidor(authenticate_repartidor(rep, FALSE))
       IN /\ token_data.resultado = R_OK
          /\ token_data.id_repartidor = rep
          /\ token_data.role = "repartidor"
  /\ \A c \in ClientesConToken :
       get_current_repartidor(authenticate_user(c, FALSE)).resultado
         = R_ROL_NO_AUTORIZADO

\* ------------------------------------------------------------------ C35
\* the requests that are inside a with-block of get_db_cursor
SolicitudesEnVuelo == { r \in Solicitudes : solicitudes[r].pc # "fin" }

====
